---- MODULE Spec2Model ----
(***************************************************************************)
(* A model of the R quality analyzer's domain layer: the structural parser *)
(* (src/r_quality_analyzer/domain/parsing.py), the metric units            *)
(* (src/r_quality_analyzer/domain/metrics/*.py) and the per-file           *)
(* aggregator (src/r_quality_analyzer/domain/file_analyzer.py).            *)
(*                                                                         *)
(* A text is a sequence of lexemes.  A lexeme is either one character      *)
(* (a brace, a quote, a backslash, a blank, a line feed, ...) or a maximal *)
(* run of word characters (an identifier, a keyword, a number) or a        *)
(* multi-character operator ("<-", "::", "||", ...).  No multi-character   *)
(* lexeme holds a brace, a quote, a backslash, a '#' or white space, and   *)
(* in every input two word lexemes are never adjacent, so each word lexeme *)
(* is exactly one match of the regular expression \w+.                     *)
(***************************************************************************)
EXTENDS Integers, Sequences, FiniteSets, TLC

(***************************************************************************)
(* Bounds of the model.                                                    *)
(***************************************************************************)
MaxTextLen == 4
MaxLines == 3
MaxFiles == 3

(***************************************************************************)
(* Lexical layer.                                                          *)
(***************************************************************************)
LBRACE == "{"
RBRACE == "}"
SQUOTE == "'"
DQUOTE == "\""
BSLASH == "\\"
NL == "\n"
SP == " "
HASH == "#"

\* The characters the brace scanner tells apart, and one ordinary character.
BraceAlphabet == {LBRACE, RBRACE, SQUOTE, DQUOTE, BSLASH, "a"}

RECURSIVE SeqsUpTo(_, _)
SeqsUpTo(S, n) ==
    IF n = 0 THEN {<<>>}
    ELSE LET shorter == SeqsUpTo(S, n - 1)
         IN  shorter \cup {Append(s, c) : s \in {t \in shorter : Len(t) = n - 1}, c \in S}

\* State of the scan of _count_braces before its first character.
ScanInit ==
    [brace_count |-> 0, in_single_quote |-> FALSE,
     in_double_quote |-> FALSE, escape_next |-> FALSE]

\* A seeded fault: a single quote toggles its state even inside a double-quoted region.
ScanCharQuoteInsideQuote(st, char) ==
    IF st.escape_next THEN [st EXCEPT !.escape_next = FALSE]
    ELSE IF char = BSLASH THEN [st EXCEPT !.escape_next = TRUE]
    ELSE IF char = SQUOTE
         THEN [st EXCEPT !.in_single_quote = ~st.in_single_quote]
    ELSE IF char = DQUOTE /\ ~st.in_single_quote
         THEN [st EXCEPT !.in_double_quote = ~st.in_double_quote]
    ELSE IF ~st.in_single_quote /\ ~st.in_double_quote
         THEN IF char = LBRACE THEN [st EXCEPT !.brace_count = st.brace_count + 1]
              ELSE IF char = RBRACE THEN [st EXCEPT !.brace_count = st.brace_count - 1]
              ELSE st
    ELSE st

\* A seeded fault: a closing brace is ignored while the count is zero, as the
\* scanner of _extract_block does before its first opening brace.
ScanCharClampAtZero(st, char) ==
    IF st.escape_next THEN [st EXCEPT !.escape_next = FALSE]
    ELSE IF char = BSLASH THEN [st EXCEPT !.escape_next = TRUE]
    ELSE IF char = SQUOTE /\ ~st.in_double_quote
         THEN [st EXCEPT !.in_single_quote = ~st.in_single_quote]
    ELSE IF char = DQUOTE /\ ~st.in_single_quote
         THEN [st EXCEPT !.in_double_quote = ~st.in_double_quote]
    ELSE IF ~st.in_single_quote /\ ~st.in_double_quote
         THEN IF char = LBRACE THEN [st EXCEPT !.brace_count = st.brace_count + 1]
              ELSE IF char = RBRACE /\ st.brace_count > 0
                   THEN [st EXCEPT !.brace_count = st.brace_count - 1]
              ELSE st
    ELSE st

\* One iteration of the loop of _count_braces over the character char.
ScanChar(st, char) ==
    IF st.escape_next THEN [st EXCEPT !.escape_next = FALSE]
    ELSE IF char = BSLASH THEN [st EXCEPT !.escape_next = TRUE]
    ELSE IF char = SQUOTE /\ ~st.in_double_quote
         THEN [st EXCEPT !.in_single_quote = ~st.in_single_quote]
    ELSE IF char = DQUOTE /\ ~st.in_single_quote
         THEN [st EXCEPT !.in_double_quote = ~st.in_double_quote]
    ELSE IF ~st.in_single_quote /\ ~st.in_double_quote
         THEN IF char = LBRACE THEN [st EXCEPT !.brace_count = st.brace_count + 1]
              ELSE IF char = RBRACE THEN [st EXCEPT !.brace_count = st.brace_count - 1]
              ELSE st
    ELSE st

RECURSIVE ScanFrom(_, _, _)
ScanFrom(st, t, k) ==
    IF k > Len(t) THEN st ELSE ScanFrom(ScanChar(st, t[k]), t, k + 1)

\* RParser._count_braces
_count_braces(t) == ScanFrom(ScanInit, t, 1).brace_count

(***************************************************************************)
(* Texts, lines and the regular-expression fragments the parser shares.    *)
(***************************************************************************)
\* The lexemes that are not a run of word characters.
Punct ==
    {LBRACE, RBRACE, SQUOTE, DQUOTE, BSLASH, NL, SP, HASH,
     "(", ")", ",", ";", ".", "<-", "<<-", "=", "::", "||", "&&", ">"}

\* A match of \w+.
IsWord(l) == l \notin Punct

\* A match of \s.
IsSpace(l) == l \in {SP, NL}

\* Python's None and the empty string.
None == <<>>

Suffix(t, k) == SubSeq(t, k, Len(t))

\* The end of a greedy \s* that starts at position k of t.
RECURSIVE SkipSpaces(_, _)
SkipSpaces(t, k) ==
    IF k <= Len(t) /\ IsSpace(t[k]) THEN SkipSpaces(t, k + 1) ELSE k

\* str.strip()
strip(t) ==
    LET ks == {k \in 1..Len(t) : ~IsSpace(t[k])}
    IN  IF ks = {} THEN <<>>
        ELSE SubSeq(t, CHOOSE k \in ks : \A m \in ks : k <= m,
                       CHOOSE k \in ks : \A m \in ks : m <= k)

\* str.split("\n"): the lines of a text, the last one possibly empty.
split(t) ==
    LET nls == {k \in 1..Len(t) : t[k] = NL}
        \* the position of the n-th line feed; 0 before the first line and
        \* Len(t) + 1 after the last
        feed(n) == IF n = 0 THEN 0
                   ELSE IF n > Cardinality(nls) THEN Len(t) + 1
                   ELSE CHOOSE k \in nls : Cardinality({m \in nls : m <= k}) = n
    IN  [n \in 1..(Cardinality(nls) + 1) |-> SubSeq(t, feed(n - 1) + 1, feed(n) - 1)]

\* str.splitlines(): as split("\n"), without the empty line after a final line feed.
splitlines(t) ==
    LET ls == split(t)
    IN  IF ls[Len(ls)] = <<>> THEN SubSeq(ls, 1, Len(ls) - 1) ELSE ls

\* "\n".join(lines)
RECURSIVE join(_)
join(ls) ==
    IF ls = <<>> THEN <<>>
    ELSE IF Len(ls) = 1 THEN ls[1]
    ELSE ls[1] \o <<NL>> \o join(Tail(ls))

\* The number of characters of a text.
RECURSIVE CharLen(_)
CharLen(t) == IF t = <<>> THEN 0 ELSE Len(t[1]) + CharLen(Tail(t))

\* The character offset at which lexeme k of t starts.
CharOffset(t, k) == CharLen(SubSeq(t, 1, k - 1))

\* t[off:] for a character offset: the lexemes of t that start at or after off.
\* A lexeme cut by the slice is left out: it holds no brace, quote or backslash.
CharSuffix(t, off) ==
    LET ks == {k \in 1..Len(t) : CharOffset(t, k) >= off}
    IN  IF ks = {} THEN <<>>
        ELSE Suffix(t, CHOOSE k \in ks : \A m \in ks : k <= m)

\* The position after a match of \s*(?:<-|=)\s*function\s*\( that starts at
\* position k of t, or 0 when there is none.
AssignFunctionEnd(t, k) ==
    LET a == SkipSpaces(t, k)
        b == SkipSpaces(t, a + 1)
        c == SkipSpaces(t, b + 1)
    IN  IF /\ a <= Len(t) /\ t[a] \in {"<-", "="}
           /\ b <= Len(t) /\ t[b] = "function"
           /\ c <= Len(t) /\ t[c] = "("
        THEN c + 1 ELSE 0

\* The identifier matched by (\w+(?:\.\w+)?)\s*(?:<-|=)\s*function\s*\( at
\* position p of t, or None.
FunctionDefAt(t, p) ==
    IF ~IsWord(t[p]) THEN None
    ELSE IF /\ p + 2 <= Len(t) /\ t[p + 1] = "." /\ IsWord(t[p + 2])
            /\ AssignFunctionEnd(t, p + 3) # 0
         THEN SubSeq(t, p, p + 2)
    ELSE IF AssignFunctionEnd(t, p + 1) # 0 THEN <<t[p]>>
    ELSE None

\* re.search of the definition pattern in a line: group 1 of the leftmost
\* match, or None.
FunctionDefName(line) ==
    LET ps == {p \in 1..Len(line) : FunctionDefAt(line, p) # None}
    IN  IF ps = {} THEN None
        ELSE FunctionDefAt(line, CHOOSE p \in ps : \A q \in ps : p <= q)

\* line.find("function("): the first lexeme "function" directly followed by
\* "(", or 0 (Python's -1).
FindFunctionParen(line) ==
    LET ks == {k \in 1..(Len(line) - 1) : line[k] = "function" /\ line[k + 1] = "("}
    IN  IF ks = {} THEN 0 ELSE CHOOSE k \in ks : \A m \in ks : k <= m

\* RParser._detect_s3_class
_detect_s3_class(func_name) ==
    LET dots == {k \in 1..Len(func_name) : func_name[k] = "."}
    IN  IF dots = {} \/ func_name[1] = "." THEN None
        ELSE IF Cardinality(dots) + 1 = 2
             THEN Suffix(func_name, (CHOOSE k \in dots : TRUE) + 1)
        ELSE None

(***************************************************************************)
(* RParser._extract_functions.  Line indices are 1-based here; start_line  *)
(* is recorded 0-based as in the source.                                   *)
(***************************************************************************)
\* The loop that looks ahead for a line holding "function(" (lines 72-74).
RECURSIVE LookAhead(_, _, _)
LookAhead(lines, j, func_lines) ==
    IF j <= Len(lines) /\ FindFunctionParen(lines[j]) = 0
    THEN LookAhead(lines, j + 1, Append(func_lines, lines[j]))
    ELSE [j |-> j, func_lines |-> func_lines]

\* The lines a body gains while the brace count is positive.
RECURSIVE ExtendLines(_, _, _, _)
ExtendLines(lines, j, brace_count, func_lines) ==
    IF j < Len(lines) /\ brace_count > 0
    THEN ExtendLines(lines, j + 1, brace_count + _count_braces(lines[j + 1]),
                     Append(func_lines, lines[j + 1]))
    ELSE [j |-> j, func_lines |-> func_lines, brace_count |-> brace_count]

\* A variant of the body loop after which the line scan resumes right after
\* the line the loop started from, inside the body.
ExtendBodyResumeInside(lines, j, brace_count, func_lines) ==
    [ExtendLines(lines, j, brace_count, func_lines) EXCEPT !.j = j]

\* The loop that appends lines while the brace count is positive (lines 83-87).
RECURSIVE ExtendBody(_, _, _, _)
ExtendBody(lines, j, brace_count, func_lines) ==
    IF j < Len(lines) /\ brace_count > 0
    THEN ExtendBody(lines, j + 1, brace_count + _count_braces(lines[j + 1]),
                    Append(func_lines, lines[j + 1]))
    ELSE [j |-> j, func_lines |-> func_lines, brace_count |-> brace_count]

\* The outer loop of _extract_functions from line i on (lines 57-92).
RECURSIVE ExtractFunctionsFrom(_, _, _)
ExtractFunctionsFrom(lines, i, functions) ==
    IF i > Len(lines) THEN functions
    ELSE
      LET line == lines[i]
          func_name == FunctionDefName(line)
      IN
      IF func_name = None THEN ExtractFunctionsFrom(lines, i + 1, functions)
      ELSE
        LET pos == FindFunctionParen(line)
            look == LookAhead(lines, i + 1, <<line>>)
        IN
        IF pos = 0 /\ look.j > Len(lines)
        THEN ExtractFunctionsFrom(lines, i + 1, functions)
        ELSE
          LET i2 == IF pos = 0 THEN look.j ELSE i
              func_lines == IF pos = 0 THEN Append(look.func_lines, lines[look.j])
                            ELSE <<line>>
              func_start_pos ==
                  IF pos = 0
                  THEN CharOffset(lines[look.j], FindFunctionParen(lines[look.j]))
                  ELSE CharOffset(line, pos)
              \* line is still the line of the match, also after a look-ahead
              brace_count == _count_braces(CharSuffix(line, func_start_pos))
              ext == ExtendBody(lines, i2, brace_count, func_lines)
              rec == [name |-> func_name,
                      body |-> join(ext.func_lines),
                      start_line |-> i - 1,
                      class_name |-> _detect_s3_class(func_name)]
          IN  ExtractFunctionsFrom(lines, ext.j + 1, Append(functions, rec))

_extract_functions(source) == ExtractFunctionsFrom(split(source), 1, <<>>)

\* The value of the line index i at the end of the iteration of the outer
\* loop that starts at line i (lines 58-91): i + 1 after a line without
\* definition (line 61) and after an abandoned candidate (line 76), j + 1
\* after a record (line 91).
NextIndex(lines, i) ==
    LET line == lines[i]
        pos == FindFunctionParen(line)
        look == LookAhead(lines, i + 1, <<line>>)
    IN  IF FunctionDefName(line) = None THEN i + 1
        ELSE IF pos = 0 /\ look.j > Len(lines) THEN i + 1
        ELSE LET i2 == IF pos = 0 THEN look.j ELSE i
                 func_lines == IF pos = 0 THEN Append(look.func_lines, lines[look.j])
                               ELSE <<line>>
                 func_start_pos ==
                     IF pos = 0
                     THEN CharOffset(lines[look.j], FindFunctionParen(lines[look.j]))
                     ELSE CharOffset(line, pos)
                 brace_count == _count_braces(CharSuffix(line, func_start_pos))
             IN  ExtendBody(lines, i2, brace_count, func_lines).j + 1

(***************************************************************************)
(* Dictionaries: a dict is the sequence of its <<key, value>> pairs in     *)
(* insertion order.                                                        *)
(***************************************************************************)
DictKeys(d) == {d[k][1] : k \in 1..Len(d)}

DictIndex(d, key) == CHOOSE k \in 1..Len(d) : d[k][1] = key

DictGet(d, key) == d[DictIndex(d, key)][2]

\* d[key] = value
DictSet(d, key, value) ==
    IF key \in DictKeys(d)
    THEN [d EXCEPT ![DictIndex(d, key)] = <<key, value>>]
    ELSE Append(d, <<key, value>>)

\* d.setdefault(key, []).extend(values)
DictExtend(d, key, values) ==
    IF key \in DictKeys(d)
    THEN [d EXCEPT ![DictIndex(d, key)] = <<key, DictGet(d, key) \o values>>]
    ELSE Append(d, <<key, values>>)

\* The smallest element of a non-empty set of positions.
Min(S) == CHOOSE k \in S : \A m \in S : k <= m

(***************************************************************************)
(* RParser._extract_r6_classes, _extract_block and _extract_r6_methods.    *)
(***************************************************************************)
\* State of the scan of _extract_block before its first character (lines 143-149).
BlockInit ==
    [brace_count |-> 0, in_quote |-> FALSE, quote_char |-> "",
     escape_next |-> FALSE, started |-> FALSE]

\* One iteration of the character loop of _extract_block (lines 153-172).
BlockChar(st, char) ==
    IF st.escape_next THEN [st EXCEPT !.escape_next = FALSE]
    ELSE IF char = BSLASH THEN [st EXCEPT !.escape_next = TRUE]
    ELSE IF char \in {SQUOTE, DQUOTE}
         THEN IF ~st.in_quote
              THEN [st EXCEPT !.in_quote = TRUE, !.quote_char = char]
              ELSE IF char = st.quote_char
                   THEN [st EXCEPT !.in_quote = FALSE, !.quote_char = ""]
              ELSE st
    ELSE IF ~st.in_quote
         THEN IF char = LBRACE
              THEN [st EXCEPT !.brace_count = st.brace_count + 1, !.started = TRUE]
              ELSE IF char = RBRACE /\ st.started
                   THEN [st EXCEPT !.brace_count = st.brace_count - 1]
              ELSE st
    ELSE st

RECURSIVE BlockLine(_, _, _)
BlockLine(st, line, k) ==
    IF k > Len(line) THEN st ELSE BlockLine(BlockChar(st, line[k]), line, k + 1)

\* The line loop of _extract_block from line j on (lines 150-176); the scan
\* state is kept from one line to the next.
RECURSIVE BlockFrom(_, _, _, _)
BlockFrom(lines, j, st, block_lines) ==
    IF j > Len(lines)
    THEN [block |-> join(block_lines), next_index |-> j + 1]
    ELSE LET st2 == BlockLine(st, lines[j], 1)
             bl == Append(block_lines, lines[j])
         IN  IF st2.started /\ st2.brace_count = 0
             THEN [block |-> join(bl), next_index |-> j + 1]
             ELSE BlockFrom(lines, j + 1, st2, bl)

\* RParser._extract_block
_extract_block(lines, start_idx) == BlockFrom(lines, start_idx, BlockInit, <<>>)

\* The positions of t where (\w+)\s*(?:<-|=)\s*function\s*\( matches.
MethodDefPositions(t) ==
    {p \in 1..Len(t) : IsWord(t[p]) /\ AssignFunctionEnd(t, p + 1) # 0}

RECURSIVE MethodNamesFrom(_, _)
MethodNamesFrom(t, p) ==
    LET ps == {q \in MethodDefPositions(t) : q >= p}
    IN  IF ps = {} THEN <<>>
        ELSE <<(<<t[Min(ps)]>>)>> \o MethodNamesFrom(t, AssignFunctionEnd(t, Min(ps) + 1))

\* A match of (public|private|active)\s*=\s*list\s*\(([^)]+)\) at position p
\* of t: the bounds of group 2, or first = 0 when there is no match.
MemberListAt(t, p) ==
    LET a == SkipSpaces(t, p + 1)
        b == SkipSpaces(t, a + 1)
        c == SkipSpaces(t, b + 1)
        closes == {k \in (c + 1)..Len(t) : t[k] = ")"}
    IN  IF /\ t[p] \in {"public", "private", "active"}
           /\ a <= Len(t) /\ t[a] = "="
           /\ b <= Len(t) /\ t[b] = "list"
           /\ c <= Len(t) /\ t[c] = "("
           /\ closes # {}
           /\ Min(closes) > c + 1
        THEN [first |-> c + 1, last |-> Min(closes) - 1]
        ELSE [first |-> 0, last |-> 0]

\* re.finditer of the member-list pattern from position p on, with the method
\* names of each section (lines 181-185).
RECURSIVE R6MethodsFrom(_, _)
R6MethodsFrom(t, p) ==
    LET ps == {q \in p..Len(t) : MemberListAt(t, q).first # 0}
    IN  IF ps = {} THEN <<>>
        ELSE LET m == MemberListAt(t, Min(ps))
             IN  MethodNamesFrom(SubSeq(t, m.first, m.last), 1)
                     \o R6MethodsFrom(t, m.last + 2)

\* RParser._extract_r6_methods
_extract_r6_methods(class_body) == R6MethodsFrom(class_body, 1)

\* Group 1 of re.search of (\w+)\s*(?:<-|=)\s*R6Class\s*\( in a line, or None.
R6ClassName(line) ==
    LET ps == {p \in 1..Len(line) :
                 /\ IsWord(line[p])
                 /\ LET a == SkipSpaces(line, p + 1)
                        b == SkipSpaces(line, a + 1)
                        c == SkipSpaces(line, b + 1)
                    IN  /\ a <= Len(line) /\ line[a] \in {"<-", "="}
                        /\ b <= Len(line) /\ line[b] = "R6Class"
                        /\ c <= Len(line) /\ line[c] = "("}
    IN  IF ps = {} THEN None ELSE <<line[Min(ps)]>>

\* The loop of _extract_r6_classes from line i on (lines 129-140).
RECURSIVE ExtractR6From(_, _, _)
ExtractR6From(lines, i, classes) ==
    IF i > Len(lines) THEN classes
    ELSE LET class_name == R6ClassName(lines[i])
         IN  IF class_name = None THEN ExtractR6From(lines, i + 1, classes)
             ELSE LET blk == _extract_block(lines, i)
                  IN  ExtractR6From(lines, blk.next_index,
                          DictSet(classes, class_name, _extract_r6_methods(blk.block)))

_extract_r6_classes(source) == ExtractR6From(split(source), 1, <<>>)

(***************************************************************************)
(* RParser._extract_s4_classes and _extract_reference_classes.             *)
(***************************************************************************)
IsQuote(l) == l \in {SQUOTE, DQUOTE}

\* The position after an optional quote at position k of t.
SkipQuote(t, k) == IF k <= Len(t) /\ IsQuote(t[k]) THEN k + 1 ELSE k

\* A match of <keyword>\s*\(\s*["']?(\w+)["']? at position p of t: the position
\* of group 1, or 0.
CallWordAt(t, p, keyword) ==
    LET a == SkipSpaces(t, p + 1)
        w == SkipQuote(t, SkipSpaces(t, a + 1))
    IN  IF /\ t[p] = keyword
           /\ a <= Len(t) /\ t[a] = "("
           /\ w <= Len(t) /\ IsWord(t[w])
        THEN w ELSE 0

\* re.findall of <keyword>\s*\(\s*["']?(\w+)["']? from position p on.
RECURSIVE CallWordsFrom(_, _, _)
CallWordsFrom(t, p, keyword) ==
    LET ps == {q \in p..Len(t) : CallWordAt(t, q, keyword) # 0}
    IN  IF ps = {} THEN <<>>
        ELSE LET w == CallWordAt(t, Min(ps), keyword)
             IN  <<(<<t[w]>>)>> \o CallWordsFrom(t, SkipQuote(t, w + 1), keyword)

\* A match of setMethod\s*\(\s*["']?(\w+)["']?\s*,\s*["']?(\w+)["']? at
\* position p of t: the positions of its two groups, or method = 0.
SetMethodAt(t, p) ==
    LET m == CallWordAt(t, p, "setMethod")
        comma == SkipSpaces(t, SkipQuote(t, m + 1))
        c == SkipQuote(t, SkipSpaces(t, comma + 1))
    IN  IF /\ m # 0
           /\ comma <= Len(t) /\ t[comma] = ","
           /\ c <= Len(t) /\ IsWord(t[c])
        THEN [method |-> m, class |-> c]
        ELSE [method |-> 0, class |-> 0]

\* re.findall of the setMethod pattern from position p on, appended to the
\* classes as the loop of lines 194-195 does.
RECURSIVE AddS4MethodsFrom(_, _, _)
AddS4MethodsFrom(t, p, classes) ==
    LET ps == {q \in p..Len(t) : SetMethodAt(t, q).method # 0}
    IN  IF ps = {} THEN classes
        ELSE LET m == SetMethodAt(t, Min(ps))
             IN  AddS4MethodsFrom(t, SkipQuote(t, m.class + 1),
                     DictExtend(classes, <<t[m.class]>>, <<(<<t[m.method]>>)>>))

\* classes[class_name] = [] for each declared class (lines 192-193).
RECURSIVE DeclareClasses(_, _)
DeclareClasses(names, classes) ==
    IF names = <<>> THEN classes
    ELSE DeclareClasses(Tail(names), DictSet(classes, names[1], <<>>))

\* RParser._extract_s4_classes
_extract_s4_classes(source) ==
    AddS4MethodsFrom(source, 1,
        DeclareClasses(CallWordsFrom(source, 1, "setClass"), <<>>))

\* A match of <class_name>\s*\.\s*(\w+)\s*(?:<-|=)\s*function at position p of
\* t: the position after it, or 0.  The class names of the inputs are not the
\* tail of a longer word.
RefMethodAt(t, p, class_name) ==
    LET a == SkipSpaces(t, p + 1)
        b == SkipSpaces(t, a + 1)
        c == SkipSpaces(t, b + 1)
        d == SkipSpaces(t, c + 1)
    IN  IF /\ <<t[p]>> = class_name
           /\ a <= Len(t) /\ t[a] = "."
           /\ b <= Len(t) /\ IsWord(t[b])
           /\ c <= Len(t) /\ t[c] \in {"<-", "="}
           /\ d <= Len(t) /\ t[d] = "function"
        THEN d + 1 ELSE 0

RECURSIVE RefMethodsFrom(_, _, _)
RefMethodsFrom(t, p, class_name) ==
    LET ps == {q \in p..Len(t) : RefMethodAt(t, q, class_name) # 0}
    IN  IF ps = {} THEN <<>>
        ELSE <<(<<t[SkipSpaces(t, SkipSpaces(t, Min(ps) + 1) + 1)]>>)>>
                 \o RefMethodsFrom(t, RefMethodAt(t, Min(ps), class_name), class_name)

\* The loop of _extract_reference_classes over the declared names (lines 201-204).
RECURSIVE RefClassesOf(_, _, _)
RefClassesOf(source, names, classes) ==
    IF names = <<>> THEN classes
    ELSE RefClassesOf(source, Tail(names),
             DictSet(classes, names[1], RefMethodsFrom(source, 1, names[1])))

\* RParser._extract_reference_classes
_extract_reference_classes(source) ==
    RefClassesOf(source, CallWordsFrom(source, 1, "setRefClass"), <<>>)

(***************************************************************************)
(* RParser._extract_imports.                                               *)
(***************************************************************************)
\* str.lower() on the capitalised spellings the inputs use.
LowerCase(l) ==
    IF l = "Library" THEN "library" ELSE IF l = "Require" THEN "require" ELSE l

\* The last position of the run of [^"'] characters that starts at position s.
RECURSIVE RunEnd(_, _)
RunEnd(t, s) == IF s <= Len(t) /\ ~IsQuote(t[s]) THEN RunEnd(t, s + 1) ELSE s - 1

\* ([^"']+)["']?\s*\) with group 1 starting at position s of t: the ends of
\* group 1 from which the rest of the pattern matches.
LibraryCaptureEnds(t, s) ==
    LET e == RunEnd(t, s)
    IN  {k \in s..e :
           \/ /\ k = e
              /\ e + 1 <= Len(t)
              /\ LET y == SkipSpaces(t, e + 2) IN y <= Len(t) /\ t[y] = ")"
           \/ LET y == SkipSpaces(t, k + 1) IN y <= Len(t) /\ t[y] = ")"}

\* The position after the pattern when group 1 is t[s..k].
LibraryMatchEnd(t, s, k) ==
    LET e == RunEnd(t, s)
        quoted == /\ k = e /\ e + 1 <= Len(t)
                  /\ LET y == SkipSpaces(t, e + 2) IN y <= Len(t) /\ t[y] = ")"
    IN  IF quoted THEN SkipSpaces(t, e + 2) + 1 ELSE SkipSpaces(t, k + 1) + 1

\* A match of (?:library|require)\s*\(\s*["']?([^"']+)["']?\s*\), ignoring
\* case, at position p of t.  The white space after the parenthesis is taken
\* greedily and given back one character at a time; the capture is the longest
\* that lets the rest match.
LibraryAt(t, p) ==
    LET a == SkipSpaces(t, p + 1)
        most == SkipSpaces(t, a + 1)
        starts == {x \in (a + 1)..most : LibraryCaptureEnds(t, SkipQuote(t, x)) # {}}
    IN  IF /\ LowerCase(t[p]) \in {"library", "require"}
           /\ a <= Len(t) /\ t[a] = "("
           /\ starts # {}
        THEN LET x == CHOOSE y \in starts : \A z \in starts : z <= y
                 s == SkipQuote(t, x)
                 ends == LibraryCaptureEnds(t, s)
                 k == CHOOSE y \in ends : \A z \in ends : z <= y
             IN  [ok |-> TRUE, capture |-> SubSeq(t, s, k), end |-> LibraryMatchEnd(t, s, k)]
        ELSE [ok |-> FALSE, capture |-> <<>>, end |-> 0]

\* re.findall of the library pattern from position p on.
RECURSIVE LibraryFrom(_, _)
LibraryFrom(t, p) ==
    LET ps == {q \in p..Len(t) : LibraryAt(t, q).ok}
    IN  IF ps = {} THEN {}
        ELSE LET m == LibraryAt(t, Min(ps))
             IN  {m.capture} \cup LibraryFrom(t, m.end)

\* A match of source\s*\(\s*["']([^"']+)["'] at position p of t: the bounds of
\* group 1, or first = 0.
SourceAt(t, p) ==
    LET a == SkipSpaces(t, p + 1)
        q == SkipSpaces(t, a + 1)
        e == RunEnd(t, q + 1)
    IN  IF /\ t[p] = "source"
           /\ a <= Len(t) /\ t[a] = "("
           /\ q <= Len(t) /\ IsQuote(t[q])
           /\ e >= q + 1
           /\ e + 1 <= Len(t)
        THEN [first |-> q + 1, last |-> e]
        ELSE [first |-> 0, last |-> 0]

RECURSIVE SourceFrom(_, _)
SourceFrom(t, p) ==
    LET ps == {q \in p..Len(t) : SourceAt(t, q).first # 0}
    IN  IF ps = {} THEN {}
        ELSE LET m == SourceAt(t, Min(ps))
             IN  {<<"source:">> \o SubSeq(t, m.first, m.last)}
                     \cup SourceFrom(t, m.last + 2)

\* re.findall of (\w+)::\w+ from position p on.
RECURSIVE NamespaceFrom(_, _)
NamespaceFrom(t, p) ==
    LET ps == {q \in p..(Len(t) - 2) :
                 IsWord(t[q]) /\ t[q + 1] = "::" /\ IsWord(t[q + 2])}
    IN  IF ps = {} THEN {}
        ELSE {<<t[Min(ps)]>>} \cup NamespaceFrom(t, Min(ps) + 3)

\* RParser._extract_imports: the sorted list of a set, kept as the set.
_extract_imports(source) ==
    LibraryFrom(source, 1) \cup SourceFrom(source, 1) \cup NamespaceFrom(source, 1)

\* A variant of parse in which function detection stops at the first line
\* that opens an R6Class definition.
ParseFunctionsBeforeClasses(path, source) ==
    LET lines == split(source)
        headers == {i \in 1..Len(lines) : R6ClassName(lines[i]) # None}
        outside(f) == \A h \in headers : f.start_line + 1 < h
    IN  [path |-> path,
         source |-> source,
         functions |-> SelectSeq(_extract_functions(source), outside),
         r6_classes |-> _extract_r6_classes(source),
         s4_classes |-> _extract_s4_classes(source),
         rc_classes |-> _extract_reference_classes(source),
         imports |-> _extract_imports(source)]

\* RParser.parse
parse(path, source) ==
    [path |-> path,
     source |-> source,
     functions |-> _extract_functions(source),
     r6_classes |-> _extract_r6_classes(source),
     s4_classes |-> _extract_s4_classes(source),
     rc_classes |-> _extract_reference_classes(source),
     imports |-> _extract_imports(source)]

(***************************************************************************)
(* Shared helpers of the metric units (domain/metrics/base.py).            *)
(***************************************************************************)
\* The scan of is_code_line over the stripped line from position idx on
\* (lines 37-44): the position of the first '#' outside quotes, or 0.  A quote
\* toggles its own flag unless the character before it is a backslash.
RECURSIVE CommentStart(_, _, _, _)
CommentStart(stripped, idx, in_single, in_double) ==
    IF idx > Len(stripped) THEN 0
    ELSE LET char == stripped[idx]
             free == idx = 1 \/ stripped[idx - 1] # BSLASH
         IN  IF char = SQUOTE /\ free
             THEN CommentStart(stripped, idx + 1, ~in_single, in_double)
             ELSE IF char = DQUOTE /\ free
             THEN CommentStart(stripped, idx + 1, in_single, ~in_double)
             ELSE IF char = HASH /\ ~in_single /\ ~in_double THEN idx
             ELSE CommentStart(stripped, idx + 1, in_single, in_double)

\* The quote flags of is_code_line after the first idx iterations of its loop
\* over the stripped line (lines 35-44); the loop ends at the first '#' that
\* is met with both flags down.
RECURSIVE CodeLineFlags(_, _)
CodeLineFlags(stripped, idx) ==
    IF idx = 0 THEN [in_single |-> FALSE, in_double |-> FALSE, ended |-> FALSE]
    ELSE LET st == CodeLineFlags(stripped, idx - 1)
             char == stripped[idx]
             free == idx = 1 \/ stripped[idx - 1] # BSLASH
         IN  IF st.ended THEN st
             ELSE IF char = SQUOTE /\ free THEN [st EXCEPT !.in_single = ~st.in_single]
             ELSE IF char = DQUOTE /\ free THEN [st EXCEPT !.in_double = ~st.in_double]
             ELSE IF char = HASH /\ ~st.in_single /\ ~st.in_double
                  THEN [st EXCEPT !.ended = TRUE]
             ELSE st

\* A variant of is_code_line that takes every non-blank line for code.
IsNonBlankLine(line) == strip(line) # <<>>

\* is_code_line
is_code_line(line) ==
    LET stripped == strip(line)
    IN  IF stripped = <<>> \/ stripped[1] = HASH THEN FALSE
        ELSE LET idx == CommentStart(stripped, 1, FALSE, FALSE)
             IN  IF idx = 0 THEN TRUE
                 ELSE strip(SubSeq(stripped, 1, idx - 1)) # <<>>

\* len(re.findall(r"\b<keyword>\s*\(", func_body))
KeywordParenCount(func_body, keyword) ==
    Cardinality({p \in 1..Len(func_body) :
        /\ func_body[p] = keyword
        /\ LET a == SkipSpaces(func_body, p + 1)
           IN  a <= Len(func_body) /\ func_body[a] = "("})

\* len(re.findall(r"\b<keyword>\b", func_body)), and the same for an operator.
LexemeCount(func_body, lexeme) ==
    Cardinality({p \in 1..Len(func_body) : func_body[p] = lexeme})

\* calculate_cyclomatic_complexity
calculate_cyclomatic_complexity(func_body) ==
    1 + KeywordParenCount(func_body, "if")
      + LexemeCount(func_body, "else")
      + KeywordParenCount(func_body, "while")
      + KeywordParenCount(func_body, "for")
      + KeywordParenCount(func_body, "repeat")
      + LexemeCount(func_body, "break")
      + LexemeCount(func_body, "next")
      + KeywordParenCount(func_body, "switch")
      + LexemeCount(func_body, "||")
      + LexemeCount(func_body, "&&")

\* The names count_function_calls does not count.
excluded == {<<"if">>, <<"while">>, <<"for">>, <<"repeat">>, <<"switch">>, <<"function">>}

\* count_function_calls: every match of \b\w+\s*\( whose text, stripped and
\* with the parenthesis removed, is not excluded.  White space between the
\* word and the parenthesis stays in the text that is compared.
count_function_calls(func_body) ==
    Cardinality({p \in 1..Len(func_body) :
        /\ IsWord(func_body[p])
        /\ LET a == SkipSpaces(func_body, p + 1)
           IN  /\ a <= Len(func_body) /\ func_body[a] = "("
               /\ SubSeq(func_body, p, a - 1) \notin excluded})

\* re.findall(r"(\w+)\s*<op>\s*", func_body) as a set.
AssignedWith(func_body, op) ==
    {<<func_body[p]>> : p \in {q \in 1..Len(func_body) :
        /\ IsWord(func_body[q])
        /\ LET a == SkipSpaces(func_body, q + 1)
           IN  a <= Len(func_body) /\ func_body[a] = op}}

\* str.split(","): the parts of a text between its commas.
RECURSIVE SplitComma(_, _, _, _)
SplitComma(t, k, cur, acc) ==
    IF k > Len(t) THEN Append(acc, cur)
    ELSE IF t[k] = "," THEN SplitComma(t, k + 1, <<>>, Append(acc, cur))
    ELSE SplitComma(t, k + 1, Append(cur, t[k]), acc)

\* part.strip().split("=")[0].strip()
ParamName(part) ==
    LET stripped == strip(part)
        eqs == {k \in 1..Len(stripped) : stripped[k] = "="}
    IN  IF eqs = {} THEN stripped
        ELSE strip(SubSeq(stripped, 1, Min(eqs) - 1))

\* Group 1 of re.search(r"function\s*\(([^)]*)\)", func_body) as [ok, group].
ParamMatch(func_body) ==
    LET ps == {p \in 1..Len(func_body) :
                 /\ func_body[p] = "function"
                 /\ LET a == SkipSpaces(func_body, p + 1)
                    IN  /\ a <= Len(func_body) /\ func_body[a] = "("
                        /\ \E c \in (a + 1)..Len(func_body) : func_body[c] = ")"}
    IN  IF ps = {} THEN [ok |-> FALSE, group |-> <<>>]
        ELSE LET a == SkipSpaces(func_body, Min(ps) + 1)
                 c == Min({k \in (a + 1)..Len(func_body) : func_body[k] = ")"})
             IN  [ok |-> TRUE, group |-> SubSeq(func_body, a + 1, c - 1)]

\* A variant of extract_local_variables that reads the body from its
\* "function(" on, without the name the function is bound to.
LocalVariablesAfterHead(func_body) ==
    LET from == IF FindFunctionParen(func_body) = 0 THEN func_body
                ELSE Suffix(func_body, FindFunctionParen(func_body))
        assigned == AssignedWith(from, "<-") \cup AssignedWith(from, "=")
                        \cup AssignedWith(from, "<<-")
        param_match == ParamMatch(from)
        parts == SplitComma(param_match.group, 1, <<>>, <<>>)
        params == {ParamName(parts[k]) : k \in {m \in 1..Len(parts) : strip(parts[m]) # <<>>}}
    IN  IF param_match.ok THEN assigned \cup params ELSE assigned

\* extract_local_variables
extract_local_variables(func_body) ==
    LET assigned == AssignedWith(func_body, "<-") \cup AssignedWith(func_body, "=")
                        \cup AssignedWith(func_body, "<<-")
        param_match == ParamMatch(func_body)
        parts == SplitComma(param_match.group, 1, <<>>, <<>>)
        params == {ParamName(parts[k]) : k \in {m \in 1..Len(parts) : strip(parts[m]) # <<>>}}
    IN  IF param_match.ok THEN assigned \cup params ELSE assigned

\* group_functions_by_class
RECURSIVE GroupFrom(_, _, _)
GroupFrom(functions, k, grouped) ==
    IF k > Len(functions) THEN grouped
    ELSE GroupFrom(functions, k + 1,
             IF functions[k].class_name # None
             THEN DictExtend(grouped, functions[k].class_name, <<functions[k].name>>)
             ELSE grouped)

group_functions_by_class(functions) == GroupFrom(functions, 1, <<>>)

\* for class_name, methods in d.items(): classes.setdefault(class_name, []).extend(methods)
RECURSIVE ExtendAll(_, _, _)
ExtendAll(classes, d, k) ==
    IF k > Len(d) THEN classes
    ELSE ExtendAll(DictExtend(classes, d[k][1], d[k][2]), d, k + 1)

\* collect_classes
collect_classes(parsed_file) ==
    ExtendAll(
        ExtendAll(
            ExtendAll(group_functions_by_class(parsed_file.functions),
                      parsed_file.r6_classes, 1),
            parsed_file.s4_classes, 1),
        parsed_file.rc_classes, 1)

\* A variant of the first step of collect_classes in which the merged map
\* starts as a shallow copy of the snapshot's r6_classes, whose lists it shares.
CollectBaseOwnersShared(parsed_file) ==
    [class_name \in DictKeys(parsed_file.r6_classes) |-> "r6_classes"]

\* The lists of the map collect_classes starts with (line 115), as objects:
\* under each class name, the owner of the list.  group_functions_by_class
\* makes every list of its map itself, with the [] of its setdefault (line
\* 109): each belongs to the call.
CollectBaseOwners(parsed_file) ==
    [class_name \in DictKeys(group_functions_by_class(parsed_file.functions)) |-> "call"]

\* One loop of collect_classes over the map d of the snapshot, from its k-th
\* item on (lines 116-121), on st.owners, the owners of the lists of the merged
\* map, and st.snapshot, the snapshot: setdefault finds the list of the class
\* or makes a new one, and extend writes to the list where it lives.
RECURSIVE ExtendOwned(_, _, _)
ExtendOwned(st, d, k) ==
    IF k > Len(d) THEN st
    ELSE LET class_name == d[k][1]
             methods == d[k][2]
             owner == IF class_name \in DOMAIN st.owners THEN st.owners[class_name]
                      ELSE "call"
         IN  ExtendOwned(
                 [owners |-> [c \in DOMAIN st.owners \cup {class_name} |->
                                 IF c = class_name THEN owner ELSE st.owners[c]],
                  snapshot |-> IF owner = "call" THEN st.snapshot
                               ELSE [st.snapshot EXCEPT
                                        ![owner] = DictExtend(@, class_name, methods)]],
                 d, k + 1)

\* The snapshot after a call of collect_classes on it.
SnapshotAfterCollect(parsed_file) ==
    LET r6 == ExtendOwned([owners |-> CollectBaseOwners(parsed_file),
                           snapshot |-> parsed_file], parsed_file.r6_classes, 1)
        s4 == ExtendOwned(r6, r6.snapshot.s4_classes, 1)
        rc == ExtendOwned(s4, s4.snapshot.rc_classes, 1)
    IN  rc.snapshot

\* The snapshot after the metric unit called name has computed on it: mpc and
\* paradigm call collect_classes, the other units only read the snapshot.
SnapshotAfter(name, parsed_file) ==
    IF name \in {"mpc", "paradigm"} THEN SnapshotAfterCollect(parsed_file)
    ELSE parsed_file

(***************************************************************************)
(* The metric units.  A number with decimals is kept in hundredths:        *)
(* round(x, 2) of the fraction num/den is the integer Round2(num, den).    *)
(***************************************************************************)
\* round(num / den, 2) in hundredths, ties to the even hundredth.
Round2(num, den) ==
    LET q == (100 * num) \div den
        r == (100 * num) % den
    IN  IF 2 * r < den THEN q
        ELSE IF 2 * r > den THEN q + 1
        ELSE IF q % 2 = 0 THEN q ELSE q + 1

RECURSIVE SumSeq(_)
SumSeq(xs) == IF xs = <<>> THEN 0 ELSE xs[1] + SumSeq(Tail(xs))

\* MetricResult(name, value); mapping is isinstance(value, dict).
MetricResult(name, value, mapping) == [name |-> name, value |-> value, mapping |-> mapping]

\* LinesOfCodeMetric.compute
LinesOfCodeMetric(parsed_file) ==
    LET ls == splitlines(parsed_file.source)
    IN  MetricResult("loc", Cardinality({k \in 1..Len(ls) : is_code_line(ls[k])}), FALSE)

\* NumberOfFunctionsMetric.compute
NumberOfFunctionsMetric(parsed_file) ==
    MetricResult("nom", Len(parsed_file.functions), FALSE)

\* CyclomaticComplexityMetric.compute
CyclomaticComplexityMetric(parsed_file) ==
    LET fs == parsed_file.functions
        scores == [k \in 1..Len(fs) |-> calculate_cyclomatic_complexity(fs[k].body)]
        per_function == [k \in 1..Len(fs) |->
                            [function |-> fs[k].name,
                             start_line |-> fs[k].start_line + 1,
                             cc |-> scores[k]]]
        avg == IF scores # <<>> THEN Round2(SumSeq(scores), Len(scores)) ELSE 0
    IN  MetricResult("cc", <<(<<"cc_avg", avg>>), (<<"complexities", per_function>>)>>, TRUE)

\* [len(methods) for methods in classes.values() if methods]
RECURSIVE NonEmptyLengths(_, _)
NonEmptyLengths(classes, k) ==
    IF k > Len(classes) THEN <<>>
    ELSE IF classes[k][2] # <<>>
         THEN <<Len(classes[k][2])>> \o NonEmptyLengths(classes, k + 1)
    ELSE NonEmptyLengths(classes, k + 1)

\* A variant of the metric whose fallback does not divide by the number of
\* functions.
MethodsPerClassRawFallback(parsed_file) ==
    LET classes == collect_classes(parsed_file)
        fs == parsed_file.functions
        ratios == NonEmptyLengths(classes, 1)
        total_calls == SumSeq([k \in 1..Len(fs) |-> count_function_calls(fs[k].body)])
    IN  IF classes # <<>>
        THEN MetricResult("mpc", Round2(SumSeq(ratios), Len(classes)), FALSE)
        ELSE MetricResult("mpc", Round2(total_calls, 1), FALSE)

\* MethodsPerClassMetric.compute
MethodsPerClassMetric(parsed_file) ==
    LET classes == collect_classes(parsed_file)
        fs == parsed_file.functions
        ratios == NonEmptyLengths(classes, 1)
        total_calls == SumSeq([k \in 1..Len(fs) |-> count_function_calls(fs[k].body)])
    IN  IF classes # <<>>
        THEN MetricResult("mpc", Round2(SumSeq(ratios), Len(classes)), FALSE)
        ELSE IF fs # <<>>
             THEN MetricResult("mpc", Round2(total_calls, Len(fs)), FALSE)
             ELSE MetricResult("mpc", Round2(total_calls, 1), FALSE)

\* CouplingBetweenObjectsMetric.compute
CouplingBetweenObjectsMetric(parsed_file) ==
    MetricResult("cbo", Cardinality(parsed_file.imports), FALSE)

\* A variant of the loops that restarts the inner index at the first function,
\* so that it visits ordered pairs.
RECURSIVE LcomLoopOrderedPairs(_, _, _, _)
LcomLoopOrderedPairs(func_vars, i, j, lcom) ==
    IF i > Len(func_vars) THEN lcom
    ELSE IF j > Len(func_vars) THEN LcomLoopOrderedPairs(func_vars, i + 1, 1, lcom)
    ELSE LcomLoopOrderedPairs(func_vars, i, j + 1,
             IF i # j /\ func_vars[i] \cap func_vars[j] = {} THEN lcom + 1 ELSE lcom)

\* The loops of LackOfCohesionMetric.compute (lines 17-20), from the pair (i, j) on.
RECURSIVE LcomLoop(_, _, _, _)
LcomLoop(func_vars, i, j, lcom) ==
    IF i > Len(func_vars) THEN lcom
    ELSE IF j > Len(func_vars) THEN LcomLoop(func_vars, i + 1, i + 2, lcom)
    ELSE LcomLoop(func_vars, i, j + 1,
             IF func_vars[i] \cap func_vars[j] = {} THEN lcom + 1 ELSE lcom)

\* LackOfCohesionMetric.compute
LackOfCohesionMetric(parsed_file) ==
    LET fs == parsed_file.functions
        func_vars == [k \in 1..Len(fs) |-> extract_local_variables(fs[k].body)]
    IN  IF Len(func_vars) < 2 THEN MetricResult("lcom", 0, FALSE)
        ELSE MetricResult("lcom", LcomLoop(func_vars, 1, 2, 0), FALSE)

\* A variant of the detector for which any function, owned or not, is a sign
\* of procedural structure.
ParadigmAnyFunctionProcedural(parsed_file) ==
    LET classes == collect_classes(parsed_file)
        fs == parsed_file.functions
        has_oop == classes # <<>>
        has_functional == fs # <<>>
        paradigm == IF has_oop /\ has_functional THEN "mixed"
                    ELSE IF has_oop THEN "oop"
                    ELSE "functional"
        counts == [k \in 1..Len(classes) |-> <<classes[k][1], Len(classes[k][2])>>]
    IN  MetricResult("paradigm",
            <<(<<"paradigm", paradigm>>), (<<"classes", counts>>),
              (<<"num_classes", Len(classes)>>)>>, TRUE)

\* ParadigmDetectorMetric.compute
ParadigmDetectorMetric(parsed_file) ==
    LET classes == collect_classes(parsed_file)
        fs == parsed_file.functions
        has_oop == classes # <<>>
        has_functional == \E k \in 1..Len(fs) : fs[k].class_name = None
        paradigm == IF has_oop /\ has_functional THEN "mixed"
                    ELSE IF has_oop THEN "oop"
                    ELSE "functional"
        counts == [k \in 1..Len(classes) |-> <<classes[k][1], Len(classes[k][2])>>]
    IN  MetricResult("paradigm",
            <<(<<"paradigm", paradigm>>), (<<"classes", counts>>),
              (<<"num_classes", Len(classes)>>)>>, TRUE)

\* The default metric list of FileAnalyzer.__init__ (lines 45-51).
metrics == <<"loc", "nom", "cc", "mpc", "cbo", "lcom", "paradigm">>

\* metric.compute(parsed) for the metric called name.
compute(name, parsed_file) ==
    CASE name = "loc" -> LinesOfCodeMetric(parsed_file)
      [] name = "nom" -> NumberOfFunctionsMetric(parsed_file)
      [] name = "cc" -> CyclomaticComplexityMetric(parsed_file)
      [] name = "mpc" -> MethodsPerClassMetric(parsed_file)
      [] name = "cbo" -> CouplingBetweenObjectsMetric(parsed_file)
      [] name = "lcom" -> LackOfCohesionMetric(parsed_file)
      [] name = "paradigm" -> ParadigmDetectorMetric(parsed_file)

\* data.update(value)
RECURSIVE DictUpdate(_, _, _)
DictUpdate(d, value, k) ==
    IF k > Len(value) THEN d
    ELSE DictUpdate(DictSet(d, value[k][1], value[k][2]), value, k + 1)

\* A variant of the iteration that stores every outcome under the name of its
\* metric.
MergeResultByName(d, result) == DictSet(d, result.name, result.value)

\* One iteration of the loop of FileAnalyzer._run_metrics (lines 71-76).
MergeResult(d, result) ==
    IF result.mapping THEN DictUpdate(d, result.value, 1)
    ELSE DictSet(d, result.name, result.value)

(***************************************************************************)
(* State.                                                                  *)
(***************************************************************************)
VARIABLES
    text,       \* the argument handed to _count_braces
    shape,      \* "plain": any text; "mirrored": a text followed by its mirror image
    delta,      \* the value _count_braces returned
    bpc,        \* "input" before the call of _count_braces, "counted" after it
    source,     \* the text of the file handed to FileAnalyzer.analyze
    pc,         \* where analyze stands: "start", "metrics", "done"
    parsed,     \* the ParsedFile, once parse has returned
    mi,         \* the index in metrics of the next metric to run
    data,       \* the dict _run_metrics fills, then the data of the FileReport
    repo_files,     \* the files the repository source yields, in order
    ri,             \* the index in repo_files of the next file to yield
    file_results,   \* the list file_results of RepositoryAnalyzer.analyze
    rpc,            \* where RepositoryAnalyzer.analyze stands: "iterating",
                    \* "summary", "returned", "raised"
    exc,            \* what raised: "none", "enumeration", "analysis", "cleanup"
    cleanups,       \* the number of calls of source.cleanup() so far
    summary         \* the data of the RepositoryReport, once built

vars == <<text, shape, delta, bpc, source, pc, parsed, mi, data,
          repo_files, ri, file_results, rpc, exc, cleanups, summary>>

braceVars == <<text, shape, delta, bpc>>
fileVars == <<source, pc, parsed, mi, data>>
repoVars == <<repo_files, ri, file_results, rpc, exc, cleanups, summary>>

\* The repository analyzer before any call of analyze.
RepoIdle ==
    /\ repo_files = <<>>
    /\ ri = 1
    /\ file_results = <<>>
    /\ rpc = "idle"
    /\ exc = "none"
    /\ cleanups = 0
    /\ summary = <<>>

\* The path of the file under analysis.
path == <<"x", ".", "R">>

NoParse == [path |-> path, source |-> <<>>, functions |-> <<>>, r6_classes |-> <<>>,
            s4_classes |-> <<>>, rc_classes |-> <<>>, imports |-> {}]

(***************************************************************************)
(* The brace scanner applied to every short text.                          *)
(***************************************************************************)
RECURSIVE Reverse(_)
Reverse(t) == IF t = <<>> THEN <<>> ELSE Append(Reverse(Tail(t)), Head(t))

SwapBrace(c) == IF c = LBRACE THEN RBRACE ELSE IF c = RBRACE THEN LBRACE ELSE c

\* t reversed, with every opening brace replaced by a closing one and conversely.
MirrorImage(t) == [i \in 1..Len(t) |-> SwapBrace(Reverse(t)[i])]

BraceInit ==
    /\ text \in SeqsUpTo(BraceAlphabet, MaxTextLen)
    /\ shape = "plain"
    /\ delta = 0
    /\ bpc = "input"
    /\ source = <<>>
    /\ pc = "idle"
    /\ parsed = NoParse
    /\ mi = 1
    /\ data = <<>>
    /\ RepoIdle

\* The caller builds the text followed by its mirror image.
AppendMirror ==
    /\ bpc = "input"
    /\ shape = "plain"
    /\ text' = text \o MirrorImage(text)
    /\ shape' = "mirrored"
    /\ UNCHANGED <<delta, bpc>>
    /\ UNCHANGED fileVars
    /\ UNCHANGED repoVars

\* A call of _count_braces(text).
CountBraces ==
    /\ bpc = "input"
    /\ delta' = _count_braces(text)
    /\ bpc' = "counted"
    /\ UNCHANGED <<text, shape>>
    /\ UNCHANGED fileVars
    /\ UNCHANGED repoVars

BraceNext == AppendMirror \/ CountBraces

SpecBraces == BraceInit /\ [][BraceNext]_vars

(***************************************************************************)
(* FileAnalyzer.analyze(path, source) on a file whose text is supplied.    *)
(***************************************************************************)
\* parsed = self.parser.parse(path, text)
Parse ==
    /\ pc = "start"
    /\ parsed' = parse(path, source)
    /\ pc' = "metrics"
    /\ mi' = 1
    /\ data' = <<>>
    /\ UNCHANGED source
    /\ UNCHANGED braceVars
    /\ UNCHANGED repoVars

\* One iteration of the loop of _run_metrics.
RunMetric ==
    /\ pc = "metrics"
    /\ mi <= Len(metrics)
    /\ data' = MergeResult(data, compute(metrics[mi], parsed))
    /\ parsed' = SnapshotAfter(metrics[mi], parsed)
    /\ mi' = mi + 1
    /\ UNCHANGED <<source, pc>>
    /\ UNCHANGED braceVars
    /\ UNCHANGED repoVars

\* metrics_data["file"] = path; return FileReport(path, metrics_data)
Finish ==
    /\ pc = "metrics"
    /\ mi > Len(metrics)
    /\ data' = DictSet(data, "file", path)
    /\ pc' = "done"
    /\ UNCHANGED <<source, parsed, mi>>
    /\ UNCHANGED braceVars
    /\ UNCHANGED repoVars

Next == Parse \/ RunMetric \/ Finish

\* The state before analyze is called on the text src.
FileInit(src) ==
    /\ source = src
    /\ pc = "start"
    /\ parsed = NoParse
    /\ mi = 1
    /\ data = <<>>
    /\ text = <<>>
    /\ shape = "plain"
    /\ delta = 0
    /\ bpc = "idle"
    /\ RepoIdle

(***************************************************************************)
(* The files analysed: every text of at most MaxLines lines drawn from a   *)
(* family of lines.                                                        *)
(***************************************************************************)
\* Lines of plain functions, their bodies, and comments.
FunctionLines ==
    {<<"f", "<-", "function", "(", "a", ")", SP, "{", SP, "u", SP, "<-", SP, "1", SP, "}">>,
     <<"g", SP, "=", SP, "function", "(", "b", ")", "{", "v", "<<-", "2", "}">>,
     <<"h", SP, "<-", SP, "function", "(", "a", ",", SP, "c", "=", "1", ")", SP, "{">>,
     <<"}">>,
     <<"w", "<-", "function", "(", ")", "{", "repeat", SP, "{", "break", "}", "}">>,
     <<"k", "<-", "function", "(", "c", ")", "{", "if", SP, "(", "c", ")", SP, "1", SP,
       "else", SP, "2", "}">>,
     <<SP, "s", "<-", SQUOTE, "}", SQUOTE>>,
     <<HASH, SP, "f", "<-", "function", "(", "x", ")", "{", "}">>,
     <<SP, HASH, SP, "note">>,
     <<>>}

\* Lines of the four class-declaration styles, and a plain function.
ClassLines ==
    {<<"print", ".", "dog", SP, "<-", SP, "function", "(", "x", ")", SP, "{", "}">>,
     <<"print", ".", "cat", SP, "<-", SP, "function", "(", "x", ")", SP, "{", "}">>,
     <<"format", ".", "dog", "<-", "function", "(", "y", ")", "{", "}">>,
     <<"f", "<-", "function", "(", "a", ")", "{", "}">>,
     <<"setClass", "(", DQUOTE, "B", DQUOTE, ")">>,
     <<"setMethod", "(", DQUOTE, "m", DQUOTE, ",", SP, DQUOTE, "B", DQUOTE, ")">>,
     <<"K", "<-", "R6Class", "(", DQUOTE, "K", DQUOTE, ",", "public", "=", "list", "(",
       "m", "=", "function", "(", ")", "{">>,
     <<"}", ")", ")">>,
     <<"setRefClass", "(", DQUOTE, "P", DQUOTE, ")">>}

\* Lines of module-loading calls, file inclusions and namespace-qualified calls.
ImportLines ==
    {<<"library", "(", "ggplot2", ")">>,
     <<"library", "(", "dplyr", ")">>,
     <<"require", "(", DQUOTE, "ggplot2", DQUOTE, ")">>,
     <<"Library", "(", SP, SQUOTE, "dplyr", SQUOTE, SP, ")">>,
     <<"dplyr", "::", "filter", "(", "x", ")">>,
     <<"source", "(", DQUOTE, "s", DQUOTE, ")">>,
     <<"x", SP, "<-", SP, "1">>}

\* Lines of statements, calls, strings and comments, and one-line functions
\* that call.
StatementLines ==
    {<<"f", "<-", "function", "(", "a", ")", "{", "print", "(", "a", ")", "}">>,
     <<"g", "<-", "function", "(", "b", ")", "{", "c", "(", "b", ",", SP, "max", SP, "(", "b",
       ")", ")", "}">>,
     <<"k", "<-", "function", "(", ")", "{", "}">>,
     <<"print", "(", "x", ")">>,
     <<"x", SP, "<-", SP, DQUOTE, HASH, DQUOTE>>,
     <<"y", SP, "<-", SP, "1", SP, HASH, SP, "c">>,
     <<"z", "<-", DQUOTE, "it", SQUOTE, "s", DQUOTE, SP, HASH, "c">>,
     <<SP, HASH, SP, "note">>,
     <<SP, SP>>}

\* Lines of definitions written in other shapes: white space between the
\* keyword and the parenthesis, a body opened and left open, identifiers with
\* several dots or a leading dot.
DefinitionLines ==
    {<<"f", SP, "=", SP, "function", SP, "(", "a", ")", SP, "1">>,
     <<"h", SP, "<-", SP, "function", SP, "(", "a", ")", SP, "{">>,
     <<"g", SP, "<-", SP, "function", "(", "b", ")", SP, "{">>,
     <<"k", "<-", "function", "(", "c", ")", "{", "if", SP, "(", "c", ")", SP, "1", SP,
       "else", SP, "2", "}">>,
     <<"w", "<-", "function", "(", ")", "{", "{">>,
     <<"}">>,
     <<"a", ".", "b", ".", "c", SP, "<-", SP, "function", "(", "x", ")", SP, "{", "}">>,
     <<".", "p", ".", "q", SP, "<-", SP, "function", "(", "x", ")", SP, "{", "}">>,
     <<"x", SP, "<-", SP, "1">>}

\* Lines of R6Class definitions: headers that open a member list, methods on
\* lines of their own, methods that follow another on the same line, and the
\* closing parentheses.
R6Lines ==
    {<<"K", SP, "<-", SP, "R6Class", "(", DQUOTE, "K", DQUOTE, ",", SP, "public", SP, "=", SP,
       "list", "(">>,
     <<"K", "<-", "R6Class", "(", DQUOTE, "K", DQUOTE, ",", "public", "=", "list", "(",
       "m", "=", "function", "(", ")", "{">>,
     <<"m", SP, "=", SP, "function", "(", ")", SP, "{", "}", ",">>,
     <<"n", SP, "=", SP, "function", "(", "x", ")", SP, "{", "}", ")", ")">>,
     <<"a", ".", "b", SP, "=", SP, "function", SP, "(", ")", SP, "{", "}", ",">>,
     <<"}", ",", "n", "=", "function", "(", ")", "{", "}", ")", ")">>,
     <<")", ",", SP, "private", SP, "=", SP, "list", "(">>,
     <<")", ")">>}

\* The texts of at most MaxLines lines of a family.
Sources(family) == {join(ls) : ls \in SeqsUpTo(family, MaxLines)}

Init == \E src \in Sources(FunctionLines) : FileInit(src)

ClassInit == \E src \in Sources(ClassLines) : FileInit(src)

ImportInit == \E src \in Sources(ImportLines) : FileInit(src)

StatementInit == \E src \in Sources(StatementLines) : FileInit(src)

DefinitionInit == \E src \in Sources(DefinitionLines) : FileInit(src)

R6Init == \E src \in Sources(R6Lines) : FileInit(src)

\* analyze on files of functions and comments.
Spec == Init /\ [][Next]_vars

\* analyze on files of class declarations.
SpecClasses == ClassInit /\ [][Next]_vars

\* analyze on files of imports.
SpecImports == ImportInit /\ [][Next]_vars

\* analyze on files of statements and comments.
SpecStatements == StatementInit /\ [][Next]_vars

\* analyze on files of definitions in other shapes.
SpecDefinitions == DefinitionInit /\ [][Next]_vars

\* analyze on files of R6Class definitions.
SpecR6 == R6Init /\ [][Next]_vars

(***************************************************************************)
(* FileAnalyzer.analyze as one call, with the read of the file.            *)
(***************************************************************************)
\* FileAnalyzer._read_file on a file whose open and read end as file.disk
\* says: the text, or no text after OSError or UnicodeDecodeError.
_read_file(file) ==
    IF file.disk \in {"OSError", "UnicodeDecodeError"}
    THEN [none |-> TRUE, text |-> <<>>]
    ELSE [none |-> FALSE, text |-> file.text]

\* The loop of FileAnalyzer._run_metrics from the k-th metric on.
RECURSIVE RunMetricsFrom(_, _, _)
RunMetricsFrom(parsed_file, k, d) ==
    IF k > Len(metrics) THEN d
    ELSE RunMetricsFrom(parsed_file, k + 1, MergeResult(d, compute(metrics[k], parsed_file)))

\* A variant of _run_metrics whose complexities list is shared by the runs of
\* one analyzer: it still holds the entries of the file analysed before.
RunMetricsSharedList(parsed_file) ==
    LET d == RunMetricsFrom(parsed_file, 1, <<>>)
        before == IF file_results = <<>> THEN <<>>
                  ELSE DictGet(file_results[Len(file_results)], "complexities")
    IN  DictSet(d, "complexities", before \o DictGet(d, "complexities"))

\* FileAnalyzer._run_metrics
_run_metrics(parsed_file) == RunMetricsFrom(parsed_file, 1, <<>>)

\* A variant of analyze that takes an empty text for an absent one.
AnalyzeSkipsEmptyText(file) ==
    LET read == IF file.supplied THEN [none |-> FALSE, text |-> file.text]
                ELSE _read_file(file)
    IN  IF read.none \/ read.text = <<>> THEN None
        ELSE DictSet(_run_metrics(parse(file.path, read.text)), "file", file.path)

\* FileAnalyzer.analyze(file.path, source), where source is file.text when
\* file.supplied and None otherwise: the data of the report, or None.
analyze(file) ==
    LET read == IF file.supplied THEN [none |-> FALSE, text |-> file.text]
                ELSE _read_file(file)
    IN  IF read.none THEN None
        ELSE DictSet(_run_metrics(parse(file.path, read.text)), "file", file.path)

(***************************************************************************)
(* RepositoryAnalyzer.  The source is a collaborator without origin and    *)
(* without root_path, whose repo_name() is RepoName.                       *)
(***************************************************************************)
RepoName == <<"repo">>

\* dict.get(key, default)
DictGetOr(d, key, default) == IF key \in DictKeys(d) THEN DictGet(d, key) ELSE default

\* sum(f.get(key, 0) for f in files)
RECURSIVE SumOf(_, _)
SumOf(files, key) ==
    IF files = <<>> THEN 0 ELSE DictGetOr(files[1], key, 0) + SumOf(Tail(files), key)

\* round(total / n, 2) for a total given in hundredths: the nearest hundredth;
\* when the quotient lies halfway between two hundredths the binary
\* floating-point value decides, and either neighbour is possible.
RoundedMeans(total, n) ==
    LET q == total \div n
        r == total % n
    IN  IF 2 * r < n THEN {q}
        ELSE IF 2 * r > n THEN {q + 1}
        ELSE {q, q + 1}

\* The loop that fills paradigm_counts (lines 75-78), from the k-th file on.
RECURSIVE CountParadigms(_, _, _)
CountParadigms(files, k, paradigm_counts) ==
    IF k > Len(files) THEN paradigm_counts
    ELSE LET paradigm == DictGetOr(files[k], "paradigm", "functional")
         IN  CountParadigms(files, k + 1,
                 DictSet(paradigm_counts, paradigm,
                         DictGetOr(paradigm_counts, paradigm, 0) + 1))

\* max(counts, key=counts.get): the first key, in insertion order, of the
\* greatest count.
MaxKey(counts) ==
    counts[Min({k \in 1..Len(counts) :
                  \A m \in 1..Len(counts) : counts[m][2] <= counts[k][2]})][1]

\* A variant of the derivation that always answers the most frequent value.
DeriveMostFrequent(counts) ==
    IF counts = <<>> THEN "functional" ELSE MaxKey(counts)

\* RepositoryAnalyzer._derive_overall_paradigm
_derive_overall_paradigm(counts) ==
    IF counts = <<>> THEN "functional"
    ELSE IF Len(counts) = 1 THEN counts[1][1]
    ELSE IF "mixed" \in DictKeys(counts)
            \/ ("oop" \in DictKeys(counts) /\ "functional" \in DictKeys(counts))
         THEN "mixed"
    ELSE MaxKey(counts)

\* The dict _build_summary returns for a non-empty list (lines 67-98), given
\* the three rounded means.
SummaryOf(files, avg_cc, avg_mpc, avg_lcom) ==
    LET paradigm_counts == CountParadigms(files, 1, <<>>)
    IN  <<(<<"repo", RepoName>>),
          (<<"repo_name", RepoName>>),
          (<<"local_repo", None>>),
          (<<"total_files", Len(files)>>),
          (<<"total_loc", SumOf(files, "loc")>>),
          (<<"total_nom", SumOf(files, "nom")>>),
          (<<"avg_cc", avg_cc>>),
          (<<"avg_mpc", avg_mpc>>),
          (<<"total_cbo", SumOf(files, "cbo")>>),
          (<<"avg_lcom", avg_lcom>>),
          (<<"paradigm", _derive_overall_paradigm(paradigm_counts)>>),
          (<<"paradigm_distribution", paradigm_counts>>),
          (<<"total_classes", SumOf(files, "num_classes")>>),
          (<<"files", files>>)>>

\* A variant of _build_summary whose report for an empty list holds the
\* totals only.
BuildSummaryTotalsOnly(files) ==
    IF files = <<>>
    THEN {<<(<<"repo", RepoName>>),
            (<<"repo_name", RepoName>>),
            (<<"local_repo", None>>),
            (<<"total_files", 0>>),
            (<<"total_loc", 0>>),
            (<<"total_nom", 0>>),
            (<<"total_cbo", 0>>),
            (<<"total_classes", 0>>)>>}
    ELSE {SummaryOf(files, avg_cc, avg_mpc, avg_lcom) :
            avg_cc \in RoundedMeans(SumOf(files, "cc_avg"), Len(files)),
            avg_mpc \in RoundedMeans(SumOf(files, "mpc"), Len(files)),
            avg_lcom \in RoundedMeans(100 * SumOf(files, "lcom"), Len(files))}

\* RepositoryAnalyzer._build_summary: the dicts it may return, one for each
\* way the halfway means may be rounded.  cc_avg and mpc are in hundredths,
\* lcom is an integer.
_build_summary(files) ==
    IF files = <<>>
    THEN {<<(<<"repo", RepoName>>),
            (<<"repo_name", RepoName>>),
            (<<"local_repo", None>>),
            (<<"total_files", 0>>),
            (<<"total_loc", 0>>),
            (<<"total_nom", 0>>),
            (<<"avg_cc", 0>>),
            (<<"avg_mpc", 0>>),
            (<<"total_cbo", 0>>),
            (<<"avg_lcom", 0>>),
            (<<"paradigm", "functional">>),
            (<<"paradigm_distribution", <<>>>>),
            (<<"total_classes", 0>>),
            (<<"files", <<>>>>)>>}
    ELSE {SummaryOf(files, avg_cc, avg_mpc, avg_lcom) :
            avg_cc \in RoundedMeans(SumOf(files, "cc_avg"), Len(files)),
            avg_mpc \in RoundedMeans(SumOf(files, "mpc"), Len(files)),
            avg_lcom \in RoundedMeans(100 * SumOf(files, "lcom"), Len(files))}

\* A variant of the step that appends whatever analyze returned.
AppendAnyReport(results, report) == Append(results, report)

\* if report: file_results.append(report.to_dict())
AppendReport(results, report) ==
    IF report # None THEN Append(results, report) ELSE results

\* A file the source yields: its path, whether the source hands its text to
\* analyze, the text, and how an open and read of the path would end.
RepoFile(name, supplied, txt, disk) ==
    [path |-> <<name, ".", "R">>, supplied |-> supplied, text |-> txt, disk |-> disk]

\* The files of the repositories analysed: a procedural, an object-oriented
\* and a mixed file, an empty one, three whose text the source does not
\* supply, of which two cannot be read, and the readable one again with its
\* text supplied.
RepoFiles ==
    {RepoFile("a", TRUE,
         <<"f", "<-", "function", "(", "a", ")", "{", "print", "(", "a", ")", "}">>,
         "readable"),
     RepoFile("b", TRUE,
         join(<<(<<"print", ".", "dog", "<-", "function", "(", "x", ")", "{", "}">>),
                (<<"print", ".", "cat", "<-", "function", "(", "x", ")", "{", "}">>)>>),
         "readable"),
     RepoFile("c", TRUE,
         join(<<(<<"setClass", "(", DQUOTE, "B", DQUOTE, ")">>),
                (<<"library", "(", "dplyr", ")">>),
                (<<"g", "<-", "function", "(", "b", ")", "{", "}">>)>>),
         "readable"),
     RepoFile("d", TRUE, <<>>, "readable"),
     RepoFile("e", FALSE, <<>>, "OSError"),
     RepoFile("u", FALSE, <<>>, "UnicodeDecodeError"),
     RepoFile("k", FALSE,
         <<"k", "<-", "function", "(", "c", ")", "{", "if", SP, "(", "c", ")", SP, "1", SP,
           "else", SP, "2", "}">>,
         "readable"),
     RepoFile("k", TRUE,
         <<"k", "<-", "function", "(", "c", ")", "{", "if", SP, "(", "c", ")", SP, "1", SP,
           "else", SP, "2", "}">>,
         "readable")}

RepoInit ==
    /\ repo_files \in SeqsUpTo(RepoFiles, MaxFiles)
    /\ ri = 1
    /\ file_results = <<>>
    /\ rpc = "iterating"
    /\ exc = "none"
    /\ cleanups = 0
    /\ summary = <<>>
    /\ source = <<>>
    /\ pc = "idle"
    /\ parsed = NoParse
    /\ mi = 1
    /\ data = <<>>
    /\ text = <<>>
    /\ shape = "plain"
    /\ delta = 0
    /\ bpc = "idle"

\* One iteration of the loop of RepositoryAnalyzer.analyze (lines 34-37).
IterFile ==
    /\ rpc = "iterating"
    /\ ri <= Len(repo_files)
    /\ file_results' = AppendReport(file_results, analyze(repo_files[ri]))
    /\ ri' = ri + 1
    /\ UNCHANGED <<repo_files, rpc, exc, cleanups, summary>>
    /\ UNCHANGED braceVars
    /\ UNCHANGED fileVars

\* A variant of IterRaise without the finally clause.
IterRaiseWithoutCleanup ==
    /\ rpc = "iterating"
    /\ \E cause \in {"enumeration", "analysis"} :
          /\ cause = "analysis" =>
                (ri <= Len(repo_files) /\ analyze(repo_files[ri]) # None)
          /\ exc' = cause
          /\ ri' = IF cause = "analysis" THEN ri + 1 ELSE ri
    /\ rpc' = "raised"
    /\ UNCHANGED <<repo_files, file_results, summary, cleanups>>
    /\ UNCHANGED braceVars
    /\ UNCHANGED fileVars

\* iter_files raises, or the analysis of the text of the file it has just
\* yielded does (a metric of the analyzer handed in, an interrupt): the
\* finally clause runs cleanup and the exception leaves analyze (lines 38-39).
IterRaise ==
    /\ rpc = "iterating"
    /\ \E cause \in {"enumeration", "analysis"} :
          /\ cause = "analysis" =>
                (ri <= Len(repo_files) /\ analyze(repo_files[ri]) # None)
          /\ exc' = cause
          /\ ri' = IF cause = "analysis" THEN ri + 1 ELSE ri
    /\ cleanups' = cleanups + 1
    /\ rpc' = "raised"
    /\ UNCHANGED <<repo_files, file_results, summary>>
    /\ UNCHANGED braceVars
    /\ UNCHANGED fileVars

\* iter_files is exhausted: the finally clause runs cleanup (lines 38-39),
\* which returns or raises.
Cleanup ==
    /\ rpc = "iterating"
    /\ ri > Len(repo_files)
    /\ cleanups' = cleanups + 1
    /\ \E ok \in BOOLEAN :
          /\ rpc' = IF ok THEN "summary" ELSE "raised"
          /\ exc' = IF ok THEN "none" ELSE "cleanup"
    /\ UNCHANGED <<repo_files, ri, file_results, summary>>
    /\ UNCHANGED braceVars
    /\ UNCHANGED fileVars

\* summary = self._build_summary(file_results); return RepositoryReport(...)
\* (lines 40-42)
BuildSummary ==
    /\ rpc = "summary"
    /\ summary' \in _build_summary(file_results)
    /\ rpc' = "returned"
    /\ UNCHANGED <<repo_files, ri, file_results, exc, cleanups>>
    /\ UNCHANGED braceVars
    /\ UNCHANGED fileVars

RepoNext == IterFile \/ IterRaise \/ Cleanup \/ BuildSummary

\* RepositoryAnalyzer.analyze on repositories of at most MaxFiles files.
SpecRepo == RepoInit /\ [][RepoNext]_vars

(***************************************************************************)
(* Claims about the brace scanner.                                         *)
(***************************************************************************)
\* Position i of t is protected: the character before it is a backslash that is
\* not itself protected.
RECURSIVE Escaped(_, _)
Escaped(t, i) == i > 1 /\ t[i - 1] = BSLASH /\ ~Escaped(t, i - 1)

\* The quoted region position i of t lies in: "none", "single" or "double".
RECURSIVE Region(_, _)
Region(t, i) ==
    IF i = 1 THEN "none"
    ELSE LET r == Region(t, i - 1)
             c == t[i - 1]
         IN  IF Escaped(t, i - 1) THEN r
             ELSE IF c = SQUOTE /\ r # "double"
                  THEN (IF r = "single" THEN "none" ELSE "single")
             ELSE IF c = DQUOTE /\ r # "single"
                  THEN (IF r = "double" THEN "none" ELSE "double")
             ELSE r

\* The positions of t holding the character c outside every quoted region and
\* not protected by a backslash.
UnquotedAt(t, c) ==
    {i \in 1..Len(t) : t[i] = c /\ ~Escaped(t, i) /\ Region(t, i) = "none"}

\* C9: for every text, _count_braces returns the number of opening braces minus
\* the number of closing braces among the braces that lie outside single- and
\* double-quoted regions and are not preceded by an unescaped backslash; a quote
\* opens or closes its region only outside the other quote type.
C9_BraceDeltaCountsUnquoted ==
    bpc = "counted" =>
        delta = Cardinality(UnquotedAt(text, LBRACE)) - Cardinality(UnquotedAt(text, RBRACE))

\* C9 witness: a counted text with a brace inside a quoted region and a
\* backslash-protected quote.
C9_Witness ==
    /\ bpc = "counted"
    /\ shape = "plain"
    /\ \E i \in 1..Len(text) : text[i] \in {LBRACE, RBRACE} /\ Region(text, i) # "none"
    /\ \E i \in 1..Len(text) : text[i] \in {SQUOTE, DQUOTE} /\ Escaped(text, i)

\* C10 as stated: for every text t, _count_braces of t followed by its mirror
\* image is zero.
C10_MirrorBalanceAnyText ==
    (bpc = "counted" /\ shape = "mirrored") => delta = 0

HasBackslash(t) == \E i \in 1..Len(t) : t[i] = BSLASH

\* C10 amended: for every text t holding no backslash, _count_braces of t
\* followed by its mirror image is zero.
C10_MirrorBalanceNoBackslash ==
    (bpc = "counted" /\ shape = "mirrored" /\ ~HasBackslash(text)) => delta = 0

\* C10 witness: a mirrored text without backslash that holds a counted brace and
\* both quote characters.
C10_Witness ==
    /\ bpc = "counted"
    /\ shape = "mirrored"
    /\ ~HasBackslash(text)
    /\ UnquotedAt(text, LBRACE) # {}
    /\ \E i \in 1..Len(text) : text[i] = SQUOTE
    /\ \E i \in 1..Len(text) : text[i] = DQUOTE

\* The scan state of _count_braces, of _extract_block and of is_code_line
\* after the first k characters of t.
BraceScanAfter(t, k) == ScanFrom(ScanInit, SubSeq(t, 1, k), 1)

BlockScanAfter(t, k) == BlockLine(BlockInit, SubSeq(t, 1, k), 1)

\* The quote a scan state is inside of, or "" outside quotes; "both" when a
\* scanner has raised its two flags.
QuoteOf(in_single, in_double) ==
    IF in_single /\ in_double THEN "both"
    ELSE IF in_single THEN SQUOTE ELSE IF in_double THEN DQUOTE ELSE ""

BraceQuote(t, k) ==
    QuoteOf(BraceScanAfter(t, k).in_single_quote, BraceScanAfter(t, k).in_double_quote)

BlockQuote(t, k) == BlockScanAfter(t, k).quote_char

CodeLineQuote(t, k) == QuoteOf(CodeLineFlags(t, k).in_single, CodeLineFlags(t, k).in_double)

\* The k-th character of t may change a quote state that was before: it is a
\* quote, the scanner is not inside the other quote, and no unescaped
\* backslash stands right before it.
MayToggle(t, k, before) ==
    /\ t[k] \in {SQUOTE, DQUOTE}
    /\ before \in {"", t[k]}
    /\ ~Escaped(t, k)

\* C26 (as stated): at every step of each of the three scanners, the quote
\* state changes only on a quote met outside the other quote type and not
\* right after an unescaped backslash.
C26_QuoteStateChangesOnlyOnFreeQuote ==
    \A k \in 1..Len(text) :
        /\ BraceQuote(text, k) # BraceQuote(text, k - 1)
              => MayToggle(text, k, BraceQuote(text, k - 1))
        /\ BlockQuote(text, k) # BlockQuote(text, k - 1)
              => MayToggle(text, k, BlockQuote(text, k - 1))
        /\ CodeLineQuote(text, k) # CodeLineQuote(text, k - 1)
              => MayToggle(text, k, CodeLineQuote(text, k - 1))

(***************************************************************************)
(* Claims about function extraction.                                       *)
(***************************************************************************)
\* The value the report holds under a key.
Report(key) == DictGet(data, key)

\* The lines of the file under analysis.
SourceLines == split(source)

\* The function records of the file under analysis.
Records == parsed.functions

\* The brace delta of line i from its "function(" on, plus the deltas of the
\* lines after it up to line j.
RECURSIVE RunningTotal(_, _, _)
RunningTotal(lines, i, j) ==
    IF j = i THEN _count_braces(Suffix(lines[i], FindFunctionParen(lines[i])))
    ELSE RunningTotal(lines, i, j - 1) + _count_braces(lines[j])

\* Line i holds a function definition whose running brace total is still
\* positive on every line up to the end of the file.
UnterminatedFunctionAt(lines, i) ==
    /\ FunctionDefName(lines[i]) # None
    /\ FindFunctionParen(lines[i]) # 0
    /\ \A j \in i..Len(lines) : RunningTotal(lines, i, j) > 0

\* Line i opens the only R6Class definition of its class, and the block of
\* that definition reaches the end of the file without closing.
UnterminatedClassAt(lines, i) ==
    /\ R6ClassName(lines[i]) # None
    /\ \A j \in 1..Len(lines) : j # i => R6ClassName(lines[j]) # R6ClassName(lines[i])
    /\ _extract_block(lines, i).next_index = Len(lines) + 2

\* C1 (as stated): an unterminated function or R6Class definition is dropped: the
\* report lists no function starting at its line, and no class of its name.
C1_UnterminatedDropped ==
    pc = "done" =>
        /\ \A i \in 1..Len(SourceLines) :
              UnterminatedFunctionAt(SourceLines, i) =>
                  \A k \in 1..Len(Report("complexities")) :
                      Report("complexities")[k].start_line # i
        /\ \A i \in 1..Len(SourceLines) :
              UnterminatedClassAt(SourceLines, i) =>
                  R6ClassName(SourceLines[i]) \notin DictKeys(Report("classes"))

\* The brace balance of a body text from its "function(" to its end.
BodyBalance(body) == _count_braces(Suffix(body, FindFunctionParen(body)))

\* C2 (as stated): the body of every function record the extractor returns has
\* brace balance zero.
C2_BodyBalanceZero ==
    pc \in {"metrics", "done"} =>
        \A k \in 1..Len(parsed.functions) : BodyBalance(parsed.functions[k].body) = 0


(***************************************************************************)
(* Claims about the file report.                                           *)
(***************************************************************************)
\* A line that is blank or begins, after leading white space, with '#'.
BlankOrComment(line) == strip(line) = <<>> \/ strip(line)[1] = HASH

\* C3 (as stated): a file of blank and comment lines only has loc = 0, nom = 0,
\* cc_avg = 0 and paradigm 'functional', whatever the comments say.
C3_CommentOnlyFileIsEmpty ==
    (pc = "done" /\ \A i \in 1..Len(SourceLines) : BlankOrComment(SourceLines[i])) =>
        /\ Report("loc") = 0
        /\ Report("nom") = 0
        /\ Report("cc_avg") = 0
        /\ Report("paradigm") = "functional"

\* The module a library(...) or require(...) call at position p of t names.
ModuleNamedAt(t, p) ==
    LET a == SkipSpaces(t, p + 1)
        w == SkipQuote(t, SkipSpaces(t, a + 1))
    IN  IF /\ LowerCase(t[p]) \in {"library", "require"}
           /\ a <= Len(t) /\ t[a] = "("
           /\ w <= Len(t) /\ IsWord(t[w])
        THEN <<t[w]>> ELSE None

\* The file a source("file") call at position p of t names.
FileIncludedAt(t, p) ==
    LET a == SkipSpaces(t, p + 1)
        q == SkipSpaces(t, a + 1)
    IN  IF /\ t[p] = "source"
           /\ a <= Len(t) /\ t[a] = "("
           /\ q + 1 <= Len(t) /\ IsQuote(t[q]) /\ IsWord(t[q + 1])
        THEN <<t[q + 1]>> ELSE None

\* The modules a text refers to: those its loading calls name, the files it
\* includes, prefixed, and the module part of its qualified names.
ReferencedModules(t) ==
    {ModuleNamedAt(t, p) : p \in {q \in 1..Len(t) : ModuleNamedAt(t, q) # None}}
    \cup {<<"source:">> \o FileIncludedAt(t, p) :
             p \in {q \in 1..Len(t) : FileIncludedAt(t, q) # None}}
    \cup {<<t[p]>> : p \in {q \in 1..(Len(t) - 2) :
                              IsWord(t[q]) /\ t[q + 1] = "::" /\ IsWord(t[q + 2])}}

\* C4 (as stated): cbo is the number of distinct modules the file refers to,
\* each loading call contributing exactly the module it names.
C4_CboCountsNamedModules ==
    pc = "done" => Report("cbo") = Cardinality(ReferencedModules(source))

\* The method counts of the classes of the report that have a method.
RECURSIVE PositiveCounts(_)
PositiveCounts(counts) ==
    IF counts = <<>> THEN <<>>
    ELSE IF counts[1][2] > 0 THEN <<counts[1][2]>> \o PositiveCounts(Tail(counts))
    ELSE PositiveCounts(Tail(counts))

\* C5 (as stated): with a non-empty class map, mpc is the mean method count of
\* the classes that have a method; a class without methods is not counted.
C5_MpcMeanOverClassesWithMethods ==
    (pc = "done" /\ PositiveCounts(Report("classes")) # <<>>) =>
        Report("mpc") = Round2(SumSeq(PositiveCounts(Report("classes"))),
                               Len(PositiveCounts(Report("classes"))))


\* The names a body assigns with <-, = or <<-: the words followed, after
\* optional white space, by one of the three operators.
AssignedNames(body) ==
    {<<body[p]>> : p \in {q \in 1..Len(body) :
        /\ IsWord(body[q])
        /\ SkipSpaces(body, q + 1) <= Len(body)
        /\ body[SkipSpaces(body, q + 1)] \in {"<-", "=", "<<-"}}}

\* The declared parameter names of a body: in the parameter list that follows
\* the first "function(", the words that open the list or follow a comma.
ParameterNames(body) ==
    LET open == FindFunctionParen(body) + 1
        close == Min({k \in open..Len(body) : body[k] = ")"})
    IN  {<<body[p]>> : p \in {q \in (open + 1)..(close - 1) :
            /\ IsWord(body[q])
            /\ \E c \in open..(q - 1) :
                  /\ body[c] \in {"(", ","}
                  /\ \A x \in (c + 1)..(q - 1) : IsSpace(body[x])}}

\* The variable-name set of the k-th function of the file.
VariableNames(k) ==
    AssignedNames(parsed.functions[k].body) \cup ParameterNames(parsed.functions[k].body)

\* The unordered pairs of functions whose variable-name sets share no name.
DisjointPairs ==
    {pr \in (1..Len(parsed.functions)) \X (1..Len(parsed.functions)) :
        pr[1] < pr[2] /\ VariableNames(pr[1]) \cap VariableNames(pr[2]) = {}}

DecisionPoints(body) ==
    {p \in 1..Len(body) :
        body[p] \in {"if", "else", "while", "for", "repeat", "break", "next", "switch",
                     "||", "&&"}}

\* C7 (as stated): the score of every function is 1 plus the number of
\* occurrences of if, else, while, for, repeat, break, next, switch, || and &&
\* in its body.
C7_ScoreCountsEveryKeyword ==
    pc = "done" =>
        \A k \in 1..Len(parsed.functions) :
            Report("complexities")[k].cc
                = 1 + Cardinality(DecisionPoints(parsed.functions[k].body))

\* The file declares a class in one of the four styles.
DeclaresClass ==
    \/ \E k \in 1..Len(parsed.functions) : parsed.functions[k].class_name # None
    \/ parsed.r6_classes # <<>>
    \/ parsed.s4_classes # <<>>
    \/ parsed.rc_classes # <<>>

\* A function of the file has no owning class.
HasUnownedFunction ==
    \E k \in 1..Len(parsed.functions) : parsed.functions[k].class_name = None

\* The file that defines print.dog and print.cat, each with an empty body.
DogAndCat ==
    join(<<(<<"print", ".", "dog", SP, "<-", SP, "function", "(", "x", ")", SP, "{", "}">>),
           (<<"print", ".", "cat", SP, "<-", SP, "function", "(", "x", ")", SP, "{", "}">>)>>)

\* C8: the paradigm is 'mixed' when the file declares a class and has a function
\* without owning class, 'oop' when it declares a class and every function is
\* owned, 'functional' otherwise; the file of print.dog and print.cat is 'oop'
\* with classes {dog: 1, cat: 1} and num_classes = 2.
C8_ParadigmRule ==
    pc = "done" =>
        /\ Report("paradigm") = IF DeclaresClass /\ HasUnownedFunction THEN "mixed"
                                ELSE IF DeclaresClass THEN "oop"
                                ELSE "functional"
        /\ source = DogAndCat =>
              /\ Report("paradigm") = "oop"
              /\ Report("classes") = <<(<<(<<"dog">>), 1>>), (<<(<<"cat">>), 1>>)>>
              /\ Report("num_classes") = 2

\* The file of print.dog and print.cat has been analysed.
C8_Witness ==
    /\ pc = "done"
    /\ source = DogAndCat
    /\ Report("paradigm") = "oop"

\* The part of a line before its first '#' that lies outside every quoted
\* region of the line: the whole line when it has none.
CodePart(line) ==
    IF UnquotedAt(line, HASH) = {} THEN line
    ELSE SubSeq(line, 1, Min(UnquotedAt(line, HASH)) - 1)

\* The lines of the file that hold a non-white-space character before their
\* comment.
CodeLines ==
    {i \in 1..Len(splitlines(source)) :
        \E k \in 1..Len(CodePart(splitlines(source)[i])) :
            ~IsSpace(CodePart(splitlines(source)[i])[k])}

\* C11: loc is the number of lines of the whole text that hold a
\* non-white-space character before the first '#' outside quoted regions; blank
\* and comment-only lines count 0 and a '#' inside a string starts no comment.
C11_LocCountsCodeLines ==
    pc = "done" => Report("loc") = Cardinality(CodeLines)

\* A file with a '#' inside a string on a counted line, a comment after code
\* and a comment-only line has been analysed.
C11_Witness ==
    /\ pc = "done"
    /\ \E i \in CodeLines : \E k \in 1..Len(SourceLines[i]) :
          SourceLines[i][k] = HASH /\ Region(SourceLines[i], k) = "double"
    /\ \E i \in CodeLines : UnquotedAt(SourceLines[i], HASH) # {}
    /\ \E i \in 1..Len(SourceLines) : i \notin CodeLines /\ strip(SourceLines[i]) # <<>>
    /\ Report("loc") = 2

\* The number of call sites counted over the bodies of the functions from the
\* k-th on.
RECURSIVE CallsFrom(_)
CallsFrom(k) ==
    IF k > Len(parsed.functions) THEN 0
    ELSE count_function_calls(parsed.functions[k].body) + CallsFrom(k + 1)

ReportKeys == [k \in 1..Len(data) |-> data[k][1]]

\* C17: every report of the default metric set has exactly the keys loc, nom,
\* cc_avg, complexities, mpc, cbo, lcom, paradigm, classes, num_classes and
\* file; each entry of a mapping-valued outcome and each scalar outcome, under
\* the name of its metric, is in the report as its metric computed it.
C17_ReportKeys ==
    pc = "done" =>
        /\ Len(data) = 11
        /\ DictKeys(data) = {"loc", "nom", "cc_avg", "complexities", "mpc", "cbo", "lcom",
                             "paradigm", "classes", "num_classes", "file"}
        /\ \A m \in 1..Len(metrics) :
              LET result == compute(metrics[m], parsed)
              IN  IF result.mapping
                  THEN \A e \in 1..Len(result.value) :
                          Report(result.value[e][1]) = result.value[e][2]
                  ELSE Report(result.name) = result.value
        /\ Report("file") = path

\* A report with a function and a class has been returned.
C17_Witness ==
    /\ pc = "done"
    /\ Report("complexities") # <<>>
    /\ Report("classes") # <<>>
    /\ ReportKeys[Len(data)] = "file"

\* C20 (as stated): every line matching the definition pattern yields its own
\* function record starting at that line, also inside the body of another
\* function, and nom is the number of such lines.
C20_EveryDefinitionLineRecorded ==
    pc = "done" =>
        /\ \A i \in 1..Len(SourceLines) :
              (FunctionDefName(SourceLines[i]) # None /\ FindFunctionParen(SourceLines[i]) # 0)
                  => \E k \in 1..Len(Report("complexities")) :
                        /\ Report("complexities")[k].start_line = i
                        /\ Report("complexities")[k].function = FunctionDefName(SourceLines[i])
        /\ Report("nom") = Cardinality({i \in 1..Len(SourceLines) :
                                FunctionDefName(SourceLines[i]) # None
                                    /\ FindFunctionParen(SourceLines[i]) # 0})

(***************************************************************************)
(* Claims about the repository report.                                     *)
(***************************************************************************)
\* The value the repository report holds under a key.
Summary(key) == DictGet(summary, key)

\* A file has a text to analyse: the source supplies it, or it can be read.
HasText(file) == file.supplied \/ file.disk = "readable"

\* The files with a text among those yielded so far, in order.
Analysable == SelectSeq(SubSeq(repo_files, 1, ri - 1), HasText)

\* The paths of a list of file reports.
PathsOf(reports) == [k \in 1..Len(reports) |-> DictGet(reports[k], "file")]

\* C13: analyze returns None, without raising, for a file that is missing,
\* unreadable or undecodable when no text is supplied, and a report whenever a
\* text is supplied, the empty text included; the repository loop skips a file
\* without report and still analyses all the files after it.
C13_UnreadableFilesSkipped ==
    /\ \A i \in 1..Len(repo_files) :
          /\ (~repo_files[i].supplied /\ repo_files[i].disk # "readable")
                => analyze(repo_files[i]) = None
          /\ repo_files[i].supplied
                => (/\ analyze(repo_files[i]) # None
                    /\ DictGet(analyze(repo_files[i]), "file") = repo_files[i].path)
    /\ rpc \in {"iterating", "summary", "returned"} =>
          PathsOf(file_results) = [k \in 1..Len(Analysable) |-> Analysable[k].path]
    /\ rpc = "returned" =>
          /\ ri = Len(repo_files) + 1
          /\ Summary("files") = file_results

\* A repository whose first file cannot be read and whose later files are an
\* empty text and a readable file has been analysed to the end.
C13_Witness ==
    /\ rpc = "returned"
    /\ Len(repo_files) = 3
    /\ ~HasText(repo_files[1])
    /\ repo_files[2].supplied /\ repo_files[2].text = <<>>
    /\ ~repo_files[3].supplied /\ repo_files[3].disk = "readable"
    /\ PathsOf(Summary("files")) = <<repo_files[2].path, repo_files[3].path>>

\* The keys of the repository report, in order.
SummaryKeys == [k \in 1..Len(summary) |-> summary[k][1]]

\* C14: when no file yields a report, the repository report holds every key,
\* the totals and the averages are 0, the paradigm is 'functional', and the
\* paradigm distribution and the list of files are empty.
C14_EmptyCorpusZeroReport ==
    (rpc = "returned" /\ \A i \in 1..Len(repo_files) : ~HasText(repo_files[i])) =>
        /\ SummaryKeys = <<"repo", "repo_name", "local_repo", "total_files", "total_loc",
                           "total_nom", "avg_cc", "avg_mpc", "total_cbo", "avg_lcom",
                           "paradigm", "paradigm_distribution", "total_classes", "files">>
        /\ \A key \in {"total_files", "total_loc", "total_nom", "total_cbo",
                       "total_classes", "avg_cc", "avg_mpc", "avg_lcom"} :
              Summary(key) = 0
        /\ Summary("paradigm") = "functional"
        /\ Summary("paradigm_distribution") = <<>>
        /\ Summary("files") = <<>>

\* A repository of two files, neither of which can be read, has been analysed.
C14_Witness ==
    /\ rpc = "returned"
    /\ Len(repo_files) = 2
    /\ \A i \in 1..Len(repo_files) : ~HasText(repo_files[i])
    /\ Summary("total_files") = 0

\* C15: total_files is the number of yielded files for which analyze returned
\* a report, it is the length of the list of files, and it is 0 exactly when
\* that list is empty.
C15_TotalFilesCountsReports ==
    rpc = "returned" =>
        /\ Summary("total_files")
              = Cardinality({i \in 1..Len(repo_files) : analyze(repo_files[i]) # None})
        /\ Summary("total_files") = Len(Summary("files"))
        /\ Summary("total_files") = 0 <=> Summary("files") = <<>>

\* A repository of three files, one of which yields no report, has been
\* analysed.
C15_Witness ==
    /\ rpc = "returned"
    /\ Len(repo_files) = 3
    /\ Summary("total_files") = 2
    /\ Len(Summary("files")) = 2


\* The paradigms of the file reports of the repository report.
FileParadigms == {DictGet(Summary("files")[k], "paradigm") : k \in 1..Len(Summary("files"))}

\* The number of file reports of the repository report with a paradigm.
FilesWith(paradigm) ==
    Cardinality({k \in 1..Len(Summary("files")) :
                    DictGet(Summary("files")[k], "paradigm") = paradigm})

\* C16: the overall paradigm is the single paradigm of the file reports when
\* they all have the same one; 'mixed' when several occur and 'mixed' is one of
\* them or 'oop' and 'functional' both are; otherwise a most frequent one.  The
\* paradigm distribution maps each occurring paradigm to its number of files.
C16_OverallParadigmRule ==
    (rpc = "returned" /\ Summary("files") # <<>>) =>
        /\ Cardinality(FileParadigms) = 1 => Summary("paradigm") \in FileParadigms
        /\ (/\ Cardinality(FileParadigms) > 1
            /\ \/ "mixed" \in FileParadigms
               \/ {"oop", "functional"} \subseteq FileParadigms)
              => Summary("paradigm") = "mixed"
        /\ (/\ Cardinality(FileParadigms) > 1
            /\ "mixed" \notin FileParadigms
            /\ ~({"oop", "functional"} \subseteq FileParadigms))
              => (/\ Summary("paradigm") \in FileParadigms
                  /\ \A p \in FileParadigms : FilesWith(p) <= FilesWith(Summary("paradigm")))
        /\ DictKeys(Summary("paradigm_distribution")) = FileParadigms
        /\ \A p \in FileParadigms :
              DictGet(Summary("paradigm_distribution"), p) = FilesWith(p)

\* A repository with two procedural files and one object-oriented file, and
\* no mixed file, has been analysed: its paradigm is 'mixed'.
C16_Witness ==
    /\ rpc = "returned"
    /\ FileParadigms = {"oop", "functional"}
    /\ FilesWith("functional") = 2
    /\ FilesWith("oop") = 1
    /\ Summary("paradigm") = "mixed"


C19_CleanupExactlyOnce ==
    /\ cleanups <= 1
    /\ rpc = "iterating" => (cleanups = 0 /\ summary = <<>>)
    /\ rpc \in {"summary", "returned", "raised"} => cleanups = 1
    /\ rpc \in {"summary", "returned"} =>
          /\ ri = Len(repo_files) + 1
          /\ Len(file_results) = Len(SelectSeq(repo_files, HasText))
    /\ rpc = "summary" => summary = <<>>
    /\ summary # <<>> => (rpc = "returned" /\ Summary("files") = file_results)
    /\ exc \in {"enumeration", "analysis"} => (rpc = "raised" /\ summary = <<>>)

\* The analysis of the second file has raised after the first was recorded:
\* cleanup has run once and no summary was built.
C19_Witness ==
    /\ rpc = "raised"
    /\ exc = "analysis"
    /\ ri = 3
    /\ Len(file_results) = 1
    /\ cleanups = 1
    /\ summary = <<>>


\* The call sites of a body: the words followed, after optional white space,
\* by "(", the reserved keywords left out.
CallSites(body) ==
    {p \in 1..Len(body) :
        /\ IsWord(body[p])
        /\ <<body[p]>> \notin excluded
        /\ LET a == SkipSpaces(body, p + 1)
           IN  a <= Len(body) /\ body[a] = "("}

\* The number of call sites over the bodies of the functions from the k-th on.
RECURSIVE CallSitesFrom(_)
CallSitesFrom(k) ==
    IF k > Len(parsed.functions) THEN 0
    ELSE Cardinality(CallSites(parsed.functions[k].body)) + CallSitesFrom(k + 1)

\* C24 (as stated): a reserved keyword is never counted as a call, whether or
\* not white space separates it from the parenthesis: in a class-free file the
\* calls counted for mpc are the call sites of the function bodies.
C24_KeywordsNeverCounted ==
    (pc = "done" /\ Report("classes") = <<>> /\ Len(parsed.functions) > 0) =>
        /\ \A k \in 1..Len(parsed.functions) :
              count_function_calls(parsed.functions[k].body)
                  = Cardinality(CallSites(parsed.functions[k].body))
        /\ Report("mpc") = Round2(CallSitesFrom(1), Len(parsed.functions))

\* C27: computing a metric leaves the snapshot as the parser made it, function
\* list, class maps, import list and source text, so the outcome of each
\* metric is its outcome on a fresh snapshot, whatever ran before it.
C27_MetricsLeaveSnapshotUnchanged ==
    /\ pc \in {"metrics", "done"} => parsed = parse(path, source)
    /\ pc = "done" =>
          \A k \in 1..Len(metrics) :
              LET result == compute(metrics[k], parse(path, source))
              IN  IF result.mapping
                  THEN \A m \in 1..Len(result.value) :
                          Report(result.value[m][1]) = result.value[m][2]
                  ELSE Report(result.name) = result.value

\* A file with an R6 class that has a method and a function owned by another
\* class has been analysed: collect_classes has merged two kinds of classes,
\* twice.
C27_Witness ==
    /\ pc = "done"
    /\ parsed.r6_classes # <<>>
    /\ parsed.r6_classes[1][2] # <<>>
    /\ group_functions_by_class(parsed.functions) # <<>>
    /\ Report("num_classes") = 2

\* The last dot-separated segment of the name of the k-th function record.
LastSegment(k) == <<Records[k].name[Len(Records[k].name)]>>

\* The pairs of function records whose names end in different segments.
PairsOfDifferentSegments ==
    {pair \in (1..Len(Records)) \X (1..Len(Records)) :
        pair[1] < pair[2] /\ LastSegment(pair[1]) # LastSegment(pair[2])}

\* C29: the variable names of every function record hold the last segment of
\* its name, so two records whose names end in the same segment are never a
\* disjoint pair: lcom counts pairs of different segments only.
C29_OwnNameAmongVariables ==
    /\ pc \in {"metrics", "done"} =>
          /\ \A k \in 1..Len(Records) :
                LastSegment(k) \in extract_local_variables(Records[k].body)
          /\ \A k \in 1..Len(Records) : \A m \in 1..Len(Records) :
                LastSegment(k) = LastSegment(m) =>
                    extract_local_variables(Records[k].body)
                        \cap extract_local_variables(Records[m].body) # {}
    /\ pc = "done" => Report("lcom") <= Cardinality(PairsOfDifferentSegments)

\* Two methods of one class with different parameters and nothing else in
\* common have been analysed: lcom is 0.
C29_Witness ==
    /\ pc = "done"
    /\ Len(Records) = 2
    /\ Records[1].name # Records[2].name
    /\ LastSegment(1) = LastSegment(2)
    /\ extract_local_variables(Records[1].body) \cap extract_local_variables(Records[2].body)
          = {LastSegment(1)}
    /\ Report("lcom") = 0

(***************************************************************************)
(* Claims about definitions in other shapes.                               *)
(***************************************************************************)
\* The first line after line i that holds "function(", or the line after the
\* last when none does.
FoundAfter(lines, i) ==
    Min({j \in (i + 1)..Len(lines) : FindFunctionParen(lines[j]) # 0} \cup {Len(lines) + 1})

\* The last line of a body whose brace accumulation starts with the text from
\* "function(" on line j: the first line at which the running total is not
\* positive, or the last line of the file.
LastLineFrom(lines, j) ==
    Min({e \in j..Len(lines) : RunningTotal(lines, j, e) <= 0} \cup {Len(lines)})

\* C21 (as stated): a definition whose line does not hold "function(" is
\* abandoned when no later line holds it; otherwise its brace count starts
\* with the text from "function(" on the line where it was found and goes on
\* with the lines after that line.
C21_LookAheadStartsOnFoundLine ==
    pc \in {"metrics", "done"} =>
        /\ \A i \in 1..Len(SourceLines) :
              (/\ FunctionDefName(SourceLines[i]) # None
               /\ FindFunctionParen(SourceLines[i]) = 0
               /\ FoundAfter(SourceLines, i) > Len(SourceLines))
                 => \A k \in 1..Len(Records) : Records[k].start_line # i - 1
        /\ \A k \in 1..Len(Records) :
              LET s == Records[k].start_line + 1
                  j == FoundAfter(SourceLines, s)
              IN  FindFunctionParen(SourceLines[s]) = 0 =>
                      /\ j <= Len(SourceLines)
                      /\ Records[k].body
                            = join(SubSeq(SourceLines, s, LastLineFrom(SourceLines, j)))


\* The line whose "function(" starts the brace count of a record that starts
\* at line s: line s itself, or the first later line that holds it.
CountedFrom(lines, s) ==
    IF FindFunctionParen(lines[s]) # 0 THEN s ELSE FoundAfter(lines, s)

\* The lines, from line j on, at which the running brace total is zero.
ZeroLines(lines, j) == {e \in j..Len(lines) : RunningTotal(lines, j, e) = 0}

\* C22 (as stated): when the running brace total of a definition returns to
\* zero before the end of the file, its body ends exactly at the first line,
\* at or after the line holding "function(", at which the total is zero.
C22_BodyEndsAtFirstZeroLine ==
    pc \in {"metrics", "done"} =>
        \A k \in 1..Len(Records) :
            LET s == Records[k].start_line + 1
                j == CountedFrom(SourceLines, s)
            IN  (j <= Len(SourceLines) /\ ZeroLines(SourceLines, j) # {}) =>
                    Records[k].body
                        = join(SubSeq(SourceLines, s, Min(ZeroLines(SourceLines, j))))


\* The identifier assigned on a definition line: the words and dots that
\* stand, without a gap, before the assignment of the function.
AssignedIdentifier(line) ==
    LET ps == {p \in 1..Len(line) : FunctionDefAt(line, p) # None}
        last == Min(ps) + Len(FunctionDefAt(line, Min(ps))) - 1
        starts == {b \in 1..last :
                      \A m \in b..last : IsWord(line[m]) \/ line[m] = "."}
    IN  SubSeq(line, Min(starts), last)

\* The number of dots of an identifier.
Dots(identifier) == Cardinality({m \in 1..Len(identifier) : identifier[m] = "."})

\* C25 (as stated): the name of a function record is the identifier being
\* assigned; its owning class is the text after the dot when the identifier
\* holds exactly one dot and does not start with a dot, and is unset for every
\* other identifier.
C25_OwningClassOfOneDotNames ==
    pc \in {"metrics", "done"} =>
        \A k \in 1..Len(Records) :
            LET identifier == AssignedIdentifier(SourceLines[Records[k].start_line + 1])
            IN  /\ Records[k].name = identifier
                /\ Records[k].class_name =
                      IF Dots(identifier) = 1 /\ identifier[1] # "."
                      THEN <<identifier[Len(identifier)]>>
                      ELSE None

\* The last line, counted from 1, of the k-th function record: its starting
\* line and as many lines as its body has.
LastLineOf(k) == Records[k].start_line + Len(split(Records[k].body))

\* The lines at which an iteration of the line scan starts, from line i on.
RECURSIVE IterationsFrom(_, _)
IterationsFrom(lines, i) ==
    IF i > Len(lines) THEN {}
    ELSE {i} \cup IterationsFrom(lines, IF NextIndex(lines, i) > i THEN NextIndex(lines, i)
                                        ELSE Len(lines) + 1)

\* C30: every iteration of the line scan advances the line index by at least
\* one; the function records have strictly increasing starting lines and
\* cover disjoint ranges of contiguous lines: the body of each record is the
\* lines from its starting line to its last consumed line, and the next
\* record starts after that line.
C30_RecordsCoverDisjointRanges ==
    pc \in {"metrics", "done"} =>
        /\ \A i \in 1..Len(SourceLines) : NextIndex(SourceLines, i) > i
        /\ \A k \in 1..Len(Records) :
              /\ Records[k].start_line + 1 \in IterationsFrom(SourceLines, 1)
              /\ NextIndex(SourceLines, Records[k].start_line + 1) = LastLineOf(k) + 1
        /\ \A k \in 1..Len(Records) :
              /\ Records[k].start_line + 1 \in 1..Len(SourceLines)
              /\ LastLineOf(k) \in (Records[k].start_line + 1)..Len(SourceLines)
              /\ Records[k].body
                    = join(SubSeq(SourceLines, Records[k].start_line + 1, LastLineOf(k)))
        /\ \A k \in 1..(Len(Records) - 1) :
              /\ Records[k].start_line < Records[k + 1].start_line
              /\ LastLineOf(k) < Records[k + 1].start_line + 1

\* A file of three lines has given two records: the first, found by looking
\* ahead, covers lines 1 and 2, and the second starts at line 3.
C30_Witness ==
    /\ pc = "done"
    /\ Len(SourceLines) = 3
    /\ Len(Records) = 2
    /\ FindFunctionParen(SourceLines[1]) = 0
    /\ Records[1].start_line = 0
    /\ LastLineOf(1) = 2
    /\ Records[2].start_line = 2

(***************************************************************************)
(* Claims about R6Class definitions.                                       *)
(***************************************************************************)
\* The number of parentheses open after the first k lexemes of t.
RECURSIVE ParenDepth(_, _)
ParenDepth(t, k) ==
    IF k = 0 THEN 0
    ELSE ParenDepth(t, k - 1)
            + (IF t[k] = "(" THEN 1 ELSE IF t[k] = ")" THEN -1 ELSE 0)

\* The position of the parenthesis that closes the one at position o of t, or
\* the position after the end of t.
ClosingParen(t, o) ==
    Min({c \in (o + 1)..Len(t) : ParenDepth(t, c) = ParenDepth(t, o) - 1} \cup {Len(t) + 1})

\* The position of the "(" of a member list public|private|active = list(
\* that starts at position p of t, or 0.
MemberListOpen(t, p) ==
    LET a == SkipSpaces(t, p + 1)
        b == SkipSpaces(t, a + 1)
        c == SkipSpaces(t, b + 1)
    IN  IF /\ t[p] \in {"public", "private", "active"}
           /\ a <= Len(t) /\ t[a] = "="
           /\ b <= Len(t) /\ t[b] = "list"
           /\ c <= Len(t) /\ t[c] = "("
        THEN c ELSE 0

\* The positions of the names bound to a function inside a member list of t.
DeclaredAt(t) ==
    {q \in MethodDefPositions(t) :
        \E p \in 1..Len(t) :
            /\ MemberListOpen(t, p) # 0
            /\ MemberListOpen(t, p) < q
            /\ q < ClosingParen(t, MemberListOpen(t, p))}

\* The names at a set of positions of t, in the order of the text.
RECURSIVE NamesAt(_, _)
NamesAt(t, ps) ==
    IF ps = {} THEN <<>> ELSE <<(<<t[Min(ps)]>>)>> \o NamesAt(t, ps \ {Min(ps)})

\* The file is one complete R6Class definition: its first line is the only
\* header, and the parenthesis the header opens is closed by the last lexeme.
OneClassDefinition ==
    /\ source # <<>>
    /\ R6ClassName(SourceLines[1]) # None
    /\ \A i \in 2..Len(SourceLines) : R6ClassName(SourceLines[i]) = None
    /\ ParenDepth(source, Len(source)) = 0
    /\ \A k \in 1..(Len(source) - 1) :
          (\E o \in 1..k : source[o] = "(") => ParenDepth(source, k) > 0

\* C23 (as stated): the methods recorded for an R6Class definition are the
\* names bound to a function inside its public, private and active lists, all
\* of them and in their order.
C23_EveryMemberListMethod ==
    (pc \in {"metrics", "done"} /\ OneClassDefinition) =>
        /\ DictKeys(parsed.r6_classes) = {R6ClassName(SourceLines[1])}
        /\ DictGet(parsed.r6_classes, R6ClassName(SourceLines[1]))
              = NamesAt(source, DeclaredAt(source))


\* Line i holds, on a line of its own, a method with an undotted name bound to
\* a function whose "function(" is on the line.
UndottedMethodAt(lines, i) ==
    /\ FunctionDefName(lines[i]) # None
    /\ Len(FunctionDefName(lines[i])) = 1
    /\ FindFunctionParen(lines[i]) # 0
    /\ <<strip(lines[i])[1]>> = FunctionDefName(lines[i])

\* A record without owning class starts at line i.
TopLevelRecordAt(i) ==
    \E k \in 1..Len(Records) :
        /\ Records[k].start_line = i - 1
        /\ Records[k].name = FunctionDefName(SourceLines[i])
        /\ Records[k].class_name = None

FirstDefinitionLine ==
    Min({i \in 1..Len(SourceLines) : FunctionDefName(SourceLines[i]) # None})

====
